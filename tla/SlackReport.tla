---------------------------- MODULE SlackReport ----------------------------
(***************************************************************************)
(* The blocker-slack operator: a cron schedule puts the one key of its     *)
(* controller into a work queue, whose worker fetches the organisation     *)
(* data and the open bugs, then messages every person and every team that  *)
(* has something to look at, and sums up in the debug channel.             *)
(*                                                                         *)
(* The controller and the queue are library-go's and client-go's, cron and *)
(* Slack are external.  A message is counted for the person or team it is  *)
(* meant for; the report to a team is several, if it is long.  The warnings *)
(* that go to the debug channel are left out.  All goroutines but the      *)
(* worker only touch the queue.                                            *)
(***************************************************************************)
EXTENDS Naturals, Sequences

CONSTANTS
    Person,     \* the assignees of bugs
    Team,       \* the names of teams
    Unknown,    \* "unknown", the team of a bug that nobody claims
    Muted,      \* the people whose Slack address in the configuration is "NONE"
    Orgs,       \* what the organisation service can answer: for each team
                \* there is, whether it has a Slack channel
    BugSets,    \* what the query for open bugs can answer
    Message,    \* texts for Slack
    Texts,      \* the reports to a team: the messages joinMessages can make
    MaxTicks,   \* bound: times the schedule fires
    MaxFaults   \* bound: failed calls and ends of the process

Bug ==
    [ assignee : Person,
      team     : Team,                \* the team GetTeamName finds, if it exists
      blocker  : {"none", "?", "+"},  \* the status of the flag "blocker"
      triaged  : BOOLEAN ]            \* severity and priority are set

Recipient == Person \cup Team

ASSUME RecipientAssumption == Person \cap Team = {} /\ Unknown \notin Recipient
ASSUME OrgsAssumption == \A o \in Orgs : DOMAIN o \subseteq Team
ASSUME BugSetsAssumption == \A B \in BugSets : B \subseteq Bug
ASSUME MutedAssumption == Muted \subseteq Person
ASSUME TextsAssumption == Texts \subseteq Seq(Message) \ {<<>>}
ASSUME BoundAssumption == MaxTicks \in Nat /\ MaxFaults \in Nat

VARIABLES
    debug,       \* config.Debug
    up,          \* the process runs
    ticks,       \* how often the schedule has fired
    faults,      \* how much of MaxFaults is used
    dirty,       \* the key waits in the queue
    delayed,     \* the key waits for the rate limiter to add it again
    pc,          \* sync: "idle", "org", "bugs", "people", "teams" or "summary"
    org, bugs,   \* *orgData, bugData.bugs: what this sync has fetched
    todo,        \* the recipients the loop at hand has not visited
    at,          \* the team it visits, if any
    unsent,      \* the messages to that team it has not tried to send
    limited,     \* Slack asked to send the first of them again later
    said,        \* history: the messages to that team it has tried to send
    reached,     \* history: whom this sync has messaged
    failed,      \* history: for whom it has logged "DeliveryFailed"
    posts,       \* history: the syncs that posted to each recipient
    redirected   \* history: the syncs that posted to the debug channel instead

queueVars == <<dirty, delayed>>
teamVars == <<at, unsent, limited, said>>
syncVars == <<pc, org, bugs, todo, teamVars, reached, failed>>
sentVars == <<posts, redirected>>
vars == <<debug, up, ticks, faults, queueVars, syncVars, sentVars>>

NoOrg == [t \in {} |-> FALSE]
None == {}
Nobody == [r \in Recipient |-> 0]

TypeOK ==
    /\ debug \in BOOLEAN /\ up \in BOOLEAN
    /\ ticks \in 0..MaxTicks /\ faults \in 0..MaxFaults
    /\ dirty \in BOOLEAN /\ delayed \in BOOLEAN
    /\ pc \in {"idle", "org", "bugs", "people", "teams", "summary"}
    /\ ~up => ~dirty /\ ~delayed /\ pc = "idle"
    /\ DOMAIN org \subseteq Team /\ bugs \in BugSets \cup {{}}
    /\ todo \subseteq Recipient /\ at \subseteq Team
    /\ unsent \in Seq(Message) /\ said \in Seq(Message)
    /\ limited \in BOOLEAN
    /\ limited => unsent # <<>>
    /\ reached \subseteq Recipient /\ failed \subseteq Recipient
    /\ posts \in [Recipient -> Nat] /\ redirected \in [Recipient -> Nat]

Init ==
    /\ debug \in BOOLEAN
    /\ up = FALSE /\ ticks = 0 /\ faults = 0
    /\ dirty = FALSE /\ delayed = FALSE
    /\ pc = "idle" /\ org = NoOrg /\ bugs = {} /\ todo = {}
    /\ at = None /\ unsent = <<>> /\ limited = FALSE /\ said = <<>>
    /\ reached = {} /\ failed = {}
    /\ posts = Nobody /\ redirected = Nobody

-----------------------------------------------------------------------------
(* The process and its queue. *)

Fault ==
    /\ faults < MaxFaults
    /\ faults' = faults + 1

\* blockerslack.Run; no sync is queued before the schedule fires.
Start ==
    /\ ~up
    /\ up' = TRUE
    /\ UNCHANGED <<debug, ticks, faults, queueVars, syncVars, sentVars>>

\* sync returns; the worker is ready for the next key.
BackToIdle ==
    /\ pc' = "idle" /\ org' = NoOrg /\ bugs' = {} /\ todo' = {}
    /\ at' = None /\ unsent' = <<>> /\ limited' = FALSE /\ said' = <<>>
    /\ reached' = {} /\ failed' = {}

\* The queue is in memory: what waits in it is gone.
Down ==
    /\ up' = FALSE
    /\ dirty' = FALSE /\ delayed' = FALSE
    /\ BackToIdle

\* A signal, or the log.Fatalln and the panic of orgData.Reconcile.
Dies ==
    /\ up
    /\ Fault
    /\ Down
    /\ UNCHANGED <<debug, ticks, sentVars>>

\* The schedule fires: Queue().Add of a key that is there already adds nothing.
Tick ==
    /\ up
    /\ ticks < MaxTicks
    /\ ticks' = ticks + 1
    /\ dirty' = TRUE
    /\ UNCHANGED <<debug, up, faults, delayed, syncVars, sentVars>>

DelayedAdd ==
    /\ delayed
    /\ delayed' = FALSE
    /\ dirty' = TRUE
    /\ UNCHANGED <<debug, up, ticks, faults, syncVars, sentVars>>

\* Queue().Get: one worker, so a key that is added meanwhile waits for it.
StartSync ==
    /\ pc = "idle"
    /\ dirty
    /\ dirty' = FALSE
    /\ pc' = "org"
    /\ UNCHANGED <<debug, up, ticks, faults, delayed, org, bugs, todo, teamVars,
                   reached, failed, sentVars>>

-----------------------------------------------------------------------------
(* sync: fetching. *)

OrgReconcile ==
    /\ pc = "org"
    /\ org' \in Orgs
    /\ pc' = "bugs"
    /\ UNCHANGED <<debug, up, ticks, faults, queueVars, bugs, todo, teamVars,
                   reached, failed, sentVars>>

\* Mutant of BugsReconcileFails: the error is logged and not returned.
BugsReconcileGivesUp ==
    /\ pc = "bugs"
    /\ Fault
    /\ BackToIdle
    /\ UNCHANGED <<debug, up, ticks, queueVars, sentVars>>

\* The error is returned, and the controller calls AddRateLimited.
BugsReconcileFails ==
    /\ pc = "bugs"
    /\ Fault
    /\ delayed' = TRUE
    /\ BackToIdle
    /\ UNCHANGED <<debug, up, ticks, dirty, sentVars>>

\* What triageBug has a personal message about.  The whiteboard, which could
\* excuse a stale bug, is not among the fields that the query asks for.
Personal(b) == b.blocker \in {"?", "+"} \/ ~b.triaged

Owner(o, b) == IF b.team \in DOMAIN o THEN b.team ELSE Unknown

\* FilterByTeams: the bugs of the teams that have a channel.
Reported(o, B) == { b \in B : Owner(o, b) \in DOMAIN o /\ o[Owner(o, b)] }

PeopleDue(o, B) == { b.assignee : b \in { c \in Reported(o, B) : Personal(c) } }

TeamsDue(o, B) == { Owner(o, b) : b \in Reported(o, B) }

\* Bugzilla answers, and Report makes the lists of who gets a message.
BugsReconcile ==
    /\ pc = "bugs"
    /\ bugs' \in BugSets
    /\ pc' = "people"
    /\ todo' = PeopleDue(org, bugs')
    /\ UNCHANGED <<debug, up, ticks, faults, queueVars, org, teamVars, reached,
                   failed, sentVars>>

-----------------------------------------------------------------------------
(* sync: messages. *)

\* Mutant of PostMessage: the debug mode does not redirect.
PostMessageForReal(r) ==
    /\ reached' = reached \cup {r}
    /\ posts' = [posts EXCEPT ![r] = IF r \in reached THEN @ ELSE @ + 1]
    /\ UNCHANGED <<failed, redirected>>

\* The slackClient posts to its recipient or, when debugging, to the debug channel.
PostMessage(r) ==
    LET count(f) == [f EXCEPT ![r] = IF r \in reached THEN @ ELSE @ + 1]
    IN  /\ reached' = reached \cup {r}
        /\ IF debug THEN redirected' = count(redirected) /\ UNCHANGED posts
                    ELSE posts' = count(posts) /\ UNCHANGED redirected
        /\ UNCHANGED failed

VisitPerson(p) ==
    /\ pc = "people"
    /\ p \in todo
    /\ todo' = todo \ {p}
    /\ UNCHANGED <<debug, up, ticks, queueVars, pc, org, bugs, teamVars>>

\* MessageEmail is not called in debug mode, and drops the message of the muted.
MessagePerson(p) ==
    /\ VisitPerson(p)
    /\ IF debug \/ p \in Muted THEN UNCHANGED <<reached, failed, sentVars>>
                               ELSE PostMessage(p)
    /\ UNCHANGED faults

\* Mutant of PersonFails: the loop over the people ends.
PersonFailsLoop(p) ==
    /\ pc = "people" /\ ~debug
    /\ p \in todo \ Muted
    /\ Fault
    /\ todo' = {}
    /\ failed' = failed \cup {p}
    /\ UNCHANGED <<debug, up, ticks, queueVars, pc, org, bugs, teamVars, reached, sentVars>>

\* A delivery that fails is logged, and the next person is visited.
PersonFails(p) ==
    /\ ~debug /\ p \notin Muted
    /\ VisitPerson(p)
    /\ Fault
    /\ failed' = failed \cup {p}
    /\ UNCHANGED <<reached, sentVars>>

EndPeople ==
    /\ pc = "people"
    /\ todo = {}
    /\ pc' = "teams"
    /\ todo' = TeamsDue(org, bugs)
    /\ UNCHANGED <<debug, up, ticks, faults, queueVars, org, bugs, teamVars,
                   reached, failed, sentVars>>

\* getTeamMessages
BeginTeam(t) ==
    /\ pc = "teams"
    /\ at = None
    /\ t \in todo
    /\ todo' = todo \ {t}
    /\ at' = {t}
    /\ unsent' \in Texts
    /\ said' = <<>>
    /\ UNCHANGED <<debug, up, ticks, faults, queueVars, pc, org, bugs, limited,
                   reached, failed, sentVars>>

VisitMessage(t) ==
    /\ t \in at
    /\ unsent # <<>>
    /\ unsent' = Tail(unsent)
    /\ said' = Append(said, Head(unsent))
    /\ limited' = FALSE
    /\ UNCHANGED <<debug, up, ticks, queueVars, pc, org, bugs, todo, at>>

MessageTeam(t) ==
    /\ VisitMessage(t)
    /\ PostMessage(t)
    /\ UNCHANGED faults

\* MessageChannel sleeps as long as Slack asks it to, and tries once more.
RateLimited ==
    /\ unsent # <<>>
    /\ ~limited
    /\ Fault
    /\ limited' = TRUE
    /\ UNCHANGED <<debug, up, ticks, queueVars, pc, org, bugs, todo, at, unsent,
                   said, reached, failed, sentVars>>

\* Mutant of TeamFails: sync returns the error, and will be tried again.
TeamFailsSync(t) ==
    /\ t \in at
    /\ unsent # <<>>
    /\ Fault
    /\ delayed' = TRUE
    /\ BackToIdle
    /\ UNCHANGED <<debug, up, ticks, dirty, sentVars>>

\* Mutant of TeamFails: the rest of the report is not sent.
TeamFailsLoop(t) ==
    /\ t \in at
    /\ unsent # <<>>
    /\ Fault
    /\ unsent' = <<>> /\ limited' = FALSE
    /\ said' = Append(said, Head(unsent))
    /\ failed' = failed \cup {t}
    /\ UNCHANGED <<debug, up, ticks, queueVars, pc, org, bugs, todo, at, reached, sentVars>>

\* A delivery that fails is logged, and the next message is sent all the same.
TeamFails(t) ==
    /\ VisitMessage(t)
    /\ Fault
    /\ failed' = failed \cup {t}
    /\ UNCHANGED <<reached, sentVars>>

EndTeam ==
    /\ at # None
    /\ unsent = <<>>
    /\ at' = None
    /\ said' = <<>>
    /\ UNCHANGED <<debug, up, ticks, faults, queueVars, pc, org, bugs, todo, unsent,
                   limited, reached, failed, sentVars>>

EndTeams ==
    /\ pc = "teams"
    /\ todo = {} /\ at = None
    /\ pc' = "summary"
    /\ UNCHANGED <<debug, up, ticks, faults, queueVars, org, bugs, todo, teamVars,
                   reached, failed, sentVars>>

\* The summary is sent, or its failure logged.  In debug mode the process exits;
\* otherwise the controller forgets the key.
EndSync ==
    /\ pc = "summary"
    /\ IF debug THEN Down ELSE BackToIdle /\ UNCHANGED <<up, queueVars>>
    /\ UNCHANGED <<debug, ticks, faults, sentVars>>

-----------------------------------------------------------------------------
Process == Start \/ Dies \/ Tick \/ DelayedAdd

Worker ==
    \/ StartSync \/ OrgReconcile \/ BugsReconcile
    \/ EndPeople \/ EndTeam \/ EndTeams \/ EndSync
    \/ \E p \in Person : MessagePerson(p)
    \/ \E t \in Team : BeginTeam(t) \/ MessageTeam(t)

Failures ==
    \/ BugsReconcileFails
    \/ RateLimited
    \/ \E p \in Person : PersonFails(p)
    \/ \E t \in Team : TeamFails(t)

Next == Process \/ Worker \/ Failures

Spec == Init /\ [][Next]_vars

\* The rate limiter adds what it delays; the worker goes on.
Fairness == WF_vars(DelayedAdd) /\ WF_vars(Worker)

FairSpec == Spec /\ Fairness

-----------------------------------------------------------------------------
(***************************************************************************)
(* "Be careful, this can spam people!": nobody hears from more syncs than  *)
(* the schedule has fired, whatever is retried, fails half way, restarts.  *)
(***************************************************************************)
AtMostOncePerTick == \A r \in Recipient : posts[r] + redirected[r] <= ticks

(***************************************************************************)
(* In debug mode no message reaches a person or the channel of a team.     *)
(***************************************************************************)
DebugStaysPrivate == debug => posts = Nobody

\* Everyone this sync ought to message.
Due == (PeopleDue(org, bugs) \ Muted) \cup TeamsDue(org, bugs)

(***************************************************************************)
(* One delivery that fails costs no other recipient the message: a sync    *)
(* that reaches its summary has reached everyone, or logged the failure.   *)
(***************************************************************************)
ReportsToAll ==
    pc = "summary" /\ ~debug => reached \cup failed = Due

(***************************************************************************)
(* A report that the schedule has asked for is made, though Bugzilla may   *)
(* fail to answer at first, unless the process ends before.                *)
(***************************************************************************)
TickIsReported == dirty ~> (pc = "summary" \/ ~up)

-----------------------------------------------------------------------------
\* The sync under way may still message r.
Awaits(r) ==
    \/ pc \in {"org", "bugs"}
    \/ pc = "people" /\ r \in Team \cup todo
    \/ pc = "teams" /\ r \in todo \cup (at \ reached)

One(b) == IF b THEN 1 ELSE 0

(***************************************************************************)
(* A tick of the schedule is spent once: it waits in the queue, or with    *)
(* the rate limiter, or in a sync that has not come to r, or r has got its *)
(* first message.                                                          *)
(***************************************************************************)
TicksInv ==
    \A r \in Recipient :
        posts[r] + redirected[r] + One(dirty) + One(delayed) + One(Awaits(r)) <= ticks

LoopInv ==
    /\ pc \in {"idle", "org", "bugs", "summary"} => todo = {}
    /\ pc = "people" => todo \subseteq Person
    /\ pc = "teams" => todo \subseteq Team /\ todo \cap at = {}
    /\ pc # "teams" => at = {} /\ unsent = <<>>
    /\ at = {} => unsent = <<>>
    /\ at # {} => said \o unsent \in Texts

IInv == TypeOK /\ LoopInv /\ TicksInv

(***************************************************************************)
(* Outside debug mode, those messaged, those for whom a failure was logged *)
(* and those the loop at hand still visits make up the lists of the report *)
(* that the sync has come to; a team leaves the loop with its report done. *)
(***************************************************************************)
ReachInv ==
    ~debug =>
        /\ pc \in {"idle", "org", "bugs"} => reached = {} /\ failed = {}
        /\ pc = "people" =>
             reached \cup failed \cup (todo \ Muted) = PeopleDue(org, bugs) \ Muted
        /\ pc = "teams" =>
             /\ reached \cup failed \cup todo \cup at = Due
             /\ \A t, u \in at : t = u
             /\ unsent = <<>> => at \subseteq reached \cup failed
        /\ pc = "summary" => reached \cup failed = Due
=============================================================================
