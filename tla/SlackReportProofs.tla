------------------------- MODULE SlackReportProofs -------------------------
(***************************************************************************)
(* Nobody is messaged more often than the schedule fires, nobody else in   *)
(* debug mode, and everybody who is due or has a logged failure otherwise, *)
(* for any number of people, teams, ticks and failures; the messages to a  *)
(* team have every line of its report, for lines of any number and length. *)
(***************************************************************************)
EXTENDS TeamReports, SequenceTheorems, WellFoundedInduction, TLAPS

(***************************************************************************)
(* The lists of Report name assignees of bugs and names of teams.          *)
(***************************************************************************)
LEMMA DueType ==
  ASSUME NEW o, DOMAIN o \subseteq Team, NEW B \in BugSets \cup {{}}
  PROVE  PeopleDue(o, B) \subseteq Person /\ TeamsDue(o, B) \subseteq Team
  <1>1. \A b \in B : b.assignee \in Person
    BY BugSetsAssumption DEF Bug
  <1>2. \A b \in Reported(o, B) : b \in B /\ Owner(o, b) \in Team
    BY DEF Reported
  <1> QED BY <1>1, <1>2 DEF PeopleDue, TeamsDue

(***************************************************************************)
(* No messages are a sequence of messages.                                 *)
(***************************************************************************)
LEMMA EmptyReport == <<>> \in Seq(Message)
  OBVIOUS

(***************************************************************************)
(* When the process is down, nothing is queued.                            *)
(***************************************************************************)
LEMMA InitIInv == Init => IInv
  <1> SUFFICES ASSUME Init PROVE IInv
    OBVIOUS
  <1>1. posts \in [Recipient -> Nat] /\ redirected \in [Recipient -> Nat]
    BY DEF Init, Nobody
  <1>2. DOMAIN org \subseteq Team
    BY DEF Init, NoOrg
  <1>3. TypeOK
    <2>1. ticks \in 0..MaxTicks /\ faults \in 0..MaxFaults
      BY BoundAssumption DEF Init
    <2>2. /\ debug \in BOOLEAN /\ up = FALSE /\ dirty = FALSE /\ delayed = FALSE
          /\ pc = "idle" /\ bugs = {} /\ todo = {} /\ at = {}
          /\ unsent = <<>> /\ limited = FALSE /\ said = <<>>
          /\ reached = {} /\ failed = {}
      BY DEF Init, None
    <2> QED BY <1>1, <1>2, <2>1, <2>2, EmptyReport DEF TypeOK
  <1>4. TicksInv
    BY DEF Init, TicksInv, Awaits, One, Nobody
  <1>5. LoopInv
    BY DEF Init, LoopInv, None
  <1> QED BY <1>3, <1>4, <1>5 DEF IInv

(***************************************************************************)
(* Where no message is posted, it is enough that no tick is duplicated.    *)
(***************************************************************************)
LEMMA QuietTicks ==
  ASSUME IInv, ticks' \in Nat, UNCHANGED <<posts, redirected>>,
         \A q \in Recipient :
            One(dirty') + One(delayed') + One(Awaits(q)') - ticks'
              <= One(dirty) + One(delayed) + One(Awaits(q)) - ticks
  PROVE  TicksInv'
  <1>1. posts \in [Recipient -> Nat] /\ redirected \in [Recipient -> Nat] /\ ticks \in Nat
    BY BoundAssumption DEF IInv, TypeOK
  <1>2. ASSUME NEW q \in Recipient
        PROVE  posts[q] + redirected[q] + One(dirty') + One(delayed') + One(Awaits(q)')
                 <= ticks'
    <2>1. posts[q] + redirected[q] + One(dirty) + One(delayed) + One(Awaits(q)) <= ticks
      BY DEF IInv, TicksInv
    <2>2. /\ One(Awaits(q)) \in Nat /\ One(Awaits(q)') \in Nat
          /\ One(dirty) \in Nat /\ One(delayed) \in Nat
          /\ One(dirty') \in Nat /\ One(delayed') \in Nat
          /\ posts[q] \in Nat /\ redirected[q] \in Nat
      BY <1>1 DEF One
    <2> QED BY <2>1, <2>2, <1>1
  <1> QED BY <1>2 DEF TicksInv, One

(***************************************************************************)
(* The first message to a recipient uses up the tick that awaits it, and   *)
(* the others are part of the same report.                                 *)
(***************************************************************************)
LEMMA PostMessageTicks ==
  ASSUME IInv, NEW r \in Recipient, PostMessage(r),
         r \in reached \/ (Awaits(r) /\ ~Awaits(r)'),
         \A q \in Recipient : Awaits(q)' => Awaits(q),
         UNCHANGED <<ticks, dirty, delayed>>
  PROVE  TicksInv' /\ posts' \in [Recipient -> Nat] /\ redirected' \in [Recipient -> Nat]
  <1>1. posts \in [Recipient -> Nat] /\ redirected \in [Recipient -> Nat] /\ ticks \in Nat
    BY BoundAssumption DEF IInv, TypeOK
  <1>2. posts' \in [Recipient -> Nat] /\ redirected' \in [Recipient -> Nat]
    BY <1>1 DEF PostMessage
  <1>3. CASE r \in reached
    <2>1. UNCHANGED <<posts, redirected>>
      BY <1>1, <1>3 DEF PostMessage
    <2> QED BY <1>1, <1>2, <2>1, QuietTicks DEF One
  <1>4. CASE r \notin reached
    <2> USE <1>4
    <2>1. posts'[r] + redirected'[r] = posts[r] + redirected[r] + 1
      BY <1>1 DEF PostMessage
    <2>2. \A q \in Recipient \ {r} : posts'[q] = posts[q] /\ redirected'[q] = redirected[q]
      BY <1>1 DEF PostMessage
    <2>3. ASSUME NEW q \in Recipient
          PROVE  posts'[q] + redirected'[q] + One(dirty) + One(delayed) + One(Awaits(q)')
                   <= ticks
      <3>1. posts[q] + redirected[q] + One(dirty) + One(delayed) + One(Awaits(q)) <= ticks
        BY DEF IInv, TicksInv
      <3>2. posts[q] \in Nat /\ redirected[q] \in Nat /\ posts'[q] \in Nat /\ redirected'[q] \in Nat
        BY <1>1, <1>2
      <3>3. One(Awaits(q)') <= One(Awaits(q))
        BY DEF One
      <3>4. One(Awaits(r)) = 1 /\ One(Awaits(r)') = 0
        BY DEF One
      <3>5. One(Awaits(q)) \in Nat /\ One(Awaits(q)') \in Nat
            /\ One(dirty) \in Nat /\ One(delayed) \in Nat
        BY DEF One
      <3>6. CASE q = r
        <4>1. posts[r] + redirected[r] + One(dirty) + One(delayed) + 1 <= ticks
          BY <3>1, <3>4, <3>6
        <4>2. posts'[r] + redirected'[r] + One(dirty) + One(delayed) + 0 <= ticks
          BY <4>1, <3>2, <3>5, <3>6, <1>1, <2>1
        <4> QED BY <4>2, <3>4, <3>6
      <3>7. CASE q # r
        BY <3>1, <3>2, <3>3, <3>5, <3>7, <1>1, <2>2
      <3> QED BY <3>6, <3>7
    <2>4. TicksInv'
      BY <2>3 DEF TicksInv, One
    <2> QED BY <1>2, <2>4
  <1> QED BY <1>3, <1>4

(***************************************************************************)
(* The steps of the process and of its queue.                              *)
(***************************************************************************)
LEMMA StartIInv == ASSUME IInv, Start PROVE IInv'
  <1>1. TypeOK'
    BY DEF Start, queueVars, syncVars, teamVars, sentVars, IInv, TypeOK
  <1>2. LoopInv' /\ TicksInv'
    BY DEF Start, queueVars, syncVars, teamVars, sentVars, IInv, LoopInv, TicksInv, Awaits
  <1> QED BY <1>1, <1>2 DEF IInv

(***************************************************************************)
(* When the process goes down, whatever waited is not sent later.          *)
(***************************************************************************)
LEMMA DownIInv ==
  ASSUME IInv, Down, faults' \in 0..MaxFaults, UNCHANGED <<debug, ticks, sentVars>>
  PROVE  IInv'
  <1>1. TypeOK'
    <2>1. DOMAIN org' \subseteq Team
      BY DEF Down, BackToIdle, NoOrg
    <2> QED BY <2>1, EmptyReport DEF Down, BackToIdle, sentVars, IInv, TypeOK, None
  <1>2. LoopInv'
    BY DEF Down, BackToIdle, None, LoopInv
  <1>3. TicksInv'
    <2>1. ticks' \in Nat /\ ticks' = ticks /\ UNCHANGED <<posts, redirected>>
      BY BoundAssumption DEF sentVars, IInv, TypeOK
    <2>2. \A q \in Recipient : ~Awaits(q)'
      BY DEF Down, BackToIdle, Awaits
    <2>3. ~dirty' /\ ~delayed'
      BY DEF Down
    <2> QED BY <2>1, <2>2, <2>3, QuietTicks DEF One
  <1> QED BY <1>1, <1>2, <1>3 DEF IInv

(***************************************************************************)
(* A tick brings one more key at most, and counts as one more tick.        *)
(***************************************************************************)
LEMMA TickIInv == ASSUME IInv, Tick PROVE IInv'
  <1>1. ticks \in Nat /\ ticks' \in 0..MaxTicks /\ ticks' = ticks + 1
    BY BoundAssumption DEF Tick, IInv, TypeOK
  <1>2. TypeOK'
    BY <1>1 DEF Tick, syncVars, teamVars, sentVars, IInv, TypeOK
  <1>3. LoopInv'
    BY DEF Tick, syncVars, teamVars, IInv, LoopInv
  <1>4. TicksInv'
    <2>1. \A q \in Recipient : Awaits(q)' = Awaits(q)
      BY DEF Tick, syncVars, teamVars, Awaits
    <2>2. UNCHANGED <<posts, redirected, delayed>> /\ dirty'
      BY DEF Tick, sentVars
    <2> QED BY <1>1, <2>1, <2>2, QuietTicks DEF One
  <1> QED BY <1>2, <1>3, <1>4 DEF IInv

(***************************************************************************)
(* The rate limiter hands the key on; it does not copy it.                 *)
(***************************************************************************)
LEMMA DelayedAddIInv == ASSUME IInv, DelayedAdd PROVE IInv'
  <1>1. up
    BY DEF DelayedAdd, IInv, TypeOK
  <1>2. TypeOK'
    BY <1>1 DEF DelayedAdd, syncVars, teamVars, sentVars, IInv, TypeOK
  <1>3. LoopInv'
    BY DEF DelayedAdd, syncVars, teamVars, IInv, LoopInv
  <1>4. TicksInv'
    <2>1. \A q \in Recipient : Awaits(q)' = Awaits(q)
      BY DEF DelayedAdd, syncVars, teamVars, Awaits
    <2>2. UNCHANGED <<posts, redirected, ticks>> /\ dirty' /\ delayed /\ ~delayed'
      BY DEF DelayedAdd, sentVars
    <2>3. ticks \in Nat
      BY BoundAssumption DEF IInv, TypeOK
    <2> QED BY <2>1, <2>2, <2>3, QuietTicks DEF One
  <1> QED BY <1>2, <1>3, <1>4 DEF IInv

(***************************************************************************)
(* The worker takes the key: the sync it starts may message everyone.      *)
(***************************************************************************)
LEMMA StartSyncIInv == ASSUME IInv, StartSync PROVE IInv'
  <1>1. up
    BY DEF StartSync, IInv, TypeOK
  <1>2. TypeOK'
    BY <1>1 DEF StartSync, sentVars, teamVars, IInv, TypeOK
  <1>3. LoopInv'
    BY DEF StartSync, teamVars, IInv, LoopInv
  <1>4. TicksInv'
    <2>1. \A q \in Recipient : ~Awaits(q) /\ Awaits(q)'
      BY DEF StartSync, Awaits
    <2>2. UNCHANGED <<posts, redirected, ticks, delayed>> /\ dirty /\ ~dirty'
      BY DEF StartSync, sentVars
    <2>3. ticks \in Nat
      BY BoundAssumption DEF IInv, TypeOK
    <2> QED BY <2>1, <2>2, <2>3, QuietTicks DEF One
  <1> QED BY <1>2, <1>3, <1>4 DEF IInv

(***************************************************************************)
(* The steps of a sync that only move it on: nobody comes to await it.     *)
(***************************************************************************)
LEMMA SyncTicks ==
  ASSUME IInv, UNCHANGED <<ticks, queueVars, sentVars>>,
         \A q \in Recipient : Awaits(q)' => Awaits(q)
  PROVE  TicksInv'
  <1>1. UNCHANGED <<ticks, dirty, delayed, posts, redirected>> /\ ticks \in Nat
    BY BoundAssumption DEF queueVars, sentVars, IInv, TypeOK
  <1> QED BY <1>1, QuietTicks DEF One

(***************************************************************************)
(* Fetching the organisation data messages nobody.                         *)
(***************************************************************************)
LEMMA OrgReconcileIInv == ASSUME IInv, OrgReconcile PROVE IInv'
  <1>1. TypeOK'
    BY OrgsAssumption DEF OrgReconcile, queueVars, sentVars, teamVars, IInv, TypeOK
  <1>2. LoopInv'
    BY DEF OrgReconcile, teamVars, IInv, LoopInv
  <1>3. TicksInv'
    BY SyncTicks DEF OrgReconcile, Awaits
  <1> QED BY <1>1, <1>2, <1>3 DEF IInv

(***************************************************************************)
(* The lists of Report await no one that the sync did not.                 *)
(***************************************************************************)
LEMMA BugsReconcileIInv == ASSUME IInv, BugsReconcile PROVE IInv'
  <1>1. bugs' \in BugSets /\ DOMAIN org \subseteq Team /\ org' = org
    BY DEF BugsReconcile, IInv, TypeOK
  <1>2. todo' \subseteq Person
    BY <1>1, DueType DEF BugsReconcile
  <1>3. TypeOK'
    BY <1>1, <1>2, BugSetsAssumption
    DEF BugsReconcile, queueVars, sentVars, teamVars, IInv, TypeOK, Recipient
  <1>4. LoopInv'
    BY <1>2 DEF BugsReconcile, teamVars, IInv, LoopInv
  <1>5. TicksInv'
    BY SyncTicks DEF BugsReconcile, Awaits
  <1> QED BY <1>3, <1>4, <1>5 DEF IInv

(***************************************************************************)
(* After the people, the teams: each of them was awaiting its message.     *)
(***************************************************************************)
LEMMA EndPeopleIInv == ASSUME IInv, EndPeople PROVE IInv'
  <1>1. DOMAIN org \subseteq Team /\ todo' = TeamsDue(org, bugs)
        /\ bugs \in BugSets \cup {{}}
    BY DEF EndPeople, IInv, TypeOK
  <1>2. todo' \subseteq Team
    BY <1>1, DueType
  <1>3. TypeOK'
    BY <1>2 DEF EndPeople, queueVars, sentVars, teamVars, IInv, TypeOK, Recipient
  <1>4. LoopInv'
    BY <1>2 DEF EndPeople, teamVars, IInv, LoopInv
  <1>5. TicksInv'
    BY <1>2, SyncTicks DEF EndPeople, teamVars, IInv, LoopInv, Awaits
  <1> QED BY <1>3, <1>4, <1>5 DEF IInv

(***************************************************************************)
(* A person who has been visited is not awaited any more.                  *)
(***************************************************************************)
LEMMA VisitPersonIInv ==
  ASSUME IInv, NEW p \in Person, VisitPerson(p)
  PROVE  /\ LoopInv' /\ pc = "people" /\ p \in Recipient
         /\ Awaits(p) /\ ~Awaits(p)' /\ \A q \in Recipient : Awaits(q)' => Awaits(q)
  <1>1. /\ pc = "people" /\ pc' = pc /\ p \in todo /\ todo' = todo \ {p}
        /\ todo \subseteq Person /\ p \in Recipient /\ p \notin Team
    BY RecipientAssumption DEF VisitPerson, IInv, LoopInv, Recipient
  <1>2. Awaits(p) /\ ~Awaits(p)' /\ \A q \in Recipient : Awaits(q)' => Awaits(q)
    BY <1>1 DEF Awaits
  <1>3. LoopInv'
    BY <1>1 DEF VisitPerson, teamVars, IInv, LoopInv
  <1> QED BY <1>1, <1>2, <1>3

(***************************************************************************)
(* So a person gets one message of a sync, or none.                        *)
(***************************************************************************)
LEMMA MessagePersonIInv ==
  ASSUME IInv, NEW p \in Person, MessagePerson(p) PROVE IInv'
  <1>1. /\ LoopInv' /\ p \in Recipient
        /\ Awaits(p) /\ ~Awaits(p)' /\ \A q \in Recipient : Awaits(q)' => Awaits(q)
    BY VisitPersonIInv DEF MessagePerson
  <1>2. /\ todo' \subseteq todo
        /\ UNCHANGED <<debug, up, ticks, faults, dirty, delayed, pc, org, bugs,
                       at, unsent, limited, said>>
    BY DEF MessagePerson, VisitPerson, queueVars, teamVars
  <1>3. CASE PostMessage(p)
    <2>1. /\ TicksInv'
          /\ posts' \in [Recipient -> Nat] /\ redirected' \in [Recipient -> Nat]
      BY <1>1, <1>2, <1>3, PostMessageTicks
    <2>2. reached' \subseteq Recipient /\ failed' = failed
      BY <1>1, <1>3 DEF PostMessage, IInv, TypeOK
    <2>3. TypeOK'
      BY <1>2, <2>1, <2>2 DEF IInv, TypeOK
    <2> QED BY <1>1, <2>1, <2>3 DEF IInv
  <1>4. CASE UNCHANGED <<reached, failed, sentVars>>
    <2>1. TicksInv'
      BY <1>1, <1>2, <1>4, SyncTicks DEF queueVars
    <2>2. TypeOK'
      BY <1>2, <1>4 DEF IInv, TypeOK, sentVars
    <2> QED BY <1>1, <2>1, <2>2 DEF IInv
  <1> QED BY <1>3, <1>4 DEF MessagePerson

(***************************************************************************)
(* A delivery to a person that fails is not tried again.                   *)
(***************************************************************************)
LEMMA PersonFailsIInv ==
  ASSUME IInv, NEW p \in Person, PersonFails(p) PROVE IInv'
  <1>1. /\ LoopInv' /\ p \in Recipient
        /\ Awaits(p) /\ ~Awaits(p)' /\ \A q \in Recipient : Awaits(q)' => Awaits(q)
    BY VisitPersonIInv DEF PersonFails
  <1>2. /\ todo' \subseteq todo /\ faults' \in 0..MaxFaults /\ failed' = failed \cup {p}
        /\ UNCHANGED <<debug, up, ticks, dirty, delayed, pc, org, bugs,
                       at, unsent, limited, said, reached, sentVars>>
    BY BoundAssumption
    DEF PersonFails, VisitPerson, Fault, queueVars, teamVars, IInv, TypeOK
  <1>3. TicksInv'
    BY <1>1, <1>2, SyncTicks DEF queueVars
  <1>4. TypeOK'
    BY <1>1, <1>2 DEF IInv, TypeOK, sentVars
  <1> QED BY <1>1, <1>3, <1>4 DEF IInv

(***************************************************************************)
(* The messages to a team are those of one report.                         *)
(***************************************************************************)
LEMMA BeginTeamIInv ==
  ASSUME IInv, NEW t \in Team, BeginTeam(t) PROVE IInv'
  <1>1. /\ pc = "teams" /\ pc' = pc /\ t \in todo /\ todo' = todo \ {t}
        /\ at = {} /\ at' = {t} /\ unsent' \in Texts /\ said' = <<>>
    BY DEF BeginTeam, None
  <1>2. unsent' \in Seq(Message) /\ unsent' # <<>> /\ said' \o unsent' = unsent'
    BY <1>1, TextsAssumption
  <1>3. TypeOK'
    BY <1>1, <1>2 DEF BeginTeam, queueVars, sentVars, IInv, TypeOK
  <1>4. LoopInv'
    BY <1>1, <1>2 DEF IInv, LoopInv
  <1>5. TicksInv'
    BY <1>1, SyncTicks DEF BeginTeam, Awaits
  <1> QED BY <1>3, <1>4, <1>5 DEF IInv

(***************************************************************************)
(* The loop over them passes over none.                                    *)
(***************************************************************************)
LEMMA VisitMessageIInv ==
  ASSUME IInv, NEW t \in Team, VisitMessage(t)
  PROVE  /\ LoopInv' /\ pc = "teams" /\ pc' = pc /\ todo' = todo /\ at' = at
         /\ t \in at /\ t \notin todo /\ t \in Recipient
         /\ unsent' \in Seq(Message) /\ said' \in Seq(Message) /\ limited' = FALSE
  <1>1. /\ pc = "teams" /\ pc' = pc /\ todo' = todo /\ at' = at
        /\ t \in at /\ t \notin todo /\ t \in Recipient
        /\ unsent # <<>> /\ unsent' = Tail(unsent) /\ said' = Append(said, Head(unsent))
        /\ limited' = FALSE
    BY DEF VisitMessage, IInv, LoopInv, Recipient
  <1>2. unsent \in Seq(Message) /\ said \in Seq(Message)
    BY DEF IInv, TypeOK
  <1>3. unsent' \in Seq(Message) /\ said' \in Seq(Message)
    BY <1>1, <1>2
  <1>4. said' \o unsent' = said \o unsent
    BY <1>1, <1>2
  <1>5. LoopInv'
    BY <1>1, <1>4 DEF IInv, LoopInv
  <1> QED BY <1>1, <1>3, <1>5

(***************************************************************************)
(* The first message that is posted uses the team's tick up, the others    *)
(* need none.                                                              *)
(***************************************************************************)
LEMMA MessageTeamIInv ==
  ASSUME IInv, NEW t \in Team, MessageTeam(t) PROVE IInv'
  <1>1. /\ LoopInv' /\ pc = "teams" /\ pc' = pc /\ todo' = todo /\ at' = at
        /\ t \in at /\ t \notin todo /\ t \in Recipient /\ PostMessage(t)
        /\ unsent' \in Seq(Message) /\ said' \in Seq(Message) /\ limited' = FALSE
    BY VisitMessageIInv DEF MessageTeam
  <1>2. UNCHANGED <<debug, up, ticks, faults, dirty, delayed, org, bugs>>
    BY DEF MessageTeam, VisitMessage, queueVars
  <1>3. reached' = reached \cup {t} /\ failed' = failed
    BY <1>1 DEF PostMessage
  <1>4. t \in reached \/ (Awaits(t) /\ ~Awaits(t)')
    BY <1>1, <1>3 DEF Awaits
  <1>5. \A q \in Recipient : Awaits(q)' => Awaits(q)
    BY <1>1, <1>3 DEF Awaits
  <1>6. /\ TicksInv'
        /\ posts' \in [Recipient -> Nat] /\ redirected' \in [Recipient -> Nat]
    BY <1>1, <1>2, <1>4, <1>5, PostMessageTicks
  <1>7. TypeOK'
    BY <1>1, <1>2, <1>3, <1>6 DEF IInv, TypeOK
  <1> QED BY <1>1, <1>6, <1>7 DEF IInv

(***************************************************************************)
(* The end of a sync, by its error or its return, spends nothing twice.    *)
(***************************************************************************)
LEMMA BugsReconcileFailsIInv == ASSUME IInv, BugsReconcileFails PROVE IInv'
  <1>1. /\ pc = "bugs" /\ up /\ faults' \in 0..MaxFaults /\ delayed' = TRUE
        /\ pc' = "idle" /\ org' = NoOrg /\ bugs' = {} /\ todo' = {}
        /\ at' = {} /\ unsent' = <<>> /\ limited' = FALSE /\ said' = <<>>
        /\ reached' = {} /\ failed' = {}
        /\ UNCHANGED <<debug, up, ticks, dirty, posts, redirected>>
    BY BoundAssumption
    DEF BugsReconcileFails, BackToIdle, Fault, None, sentVars, IInv, TypeOK
  <1>2. TypeOK'
    <2>1. DOMAIN org' \subseteq Team
      BY <1>1 DEF NoOrg
    <2> QED BY <1>1, <2>1, EmptyReport DEF IInv, TypeOK
  <1>3. LoopInv'
    BY <1>1 DEF LoopInv
  <1>4. TicksInv'
    <2>1. \A q \in Recipient : Awaits(q) /\ ~Awaits(q)'
      BY <1>1 DEF Awaits
    <2>2. ticks \in Nat
      BY BoundAssumption DEF IInv, TypeOK
    <2> QED BY <1>1, <2>1, <2>2, QuietTicks DEF One
  <1> QED BY <1>2, <1>3, <1>4 DEF IInv

(***************************************************************************)
(* Neither does the summary, which the debug mode follows with an exit.    *)
(***************************************************************************)
LEMMA EndSyncIInv == ASSUME IInv, EndSync PROVE IInv'
  <1>1. CASE debug
    <2>1. faults' \in 0..MaxFaults
      BY DEF EndSync, IInv, TypeOK
    <2> QED BY <1>1, <2>1, DownIInv DEF EndSync
  <1>2. CASE ~debug
    <2>1. /\ pc = "summary" /\ pc' = "idle" /\ org' = NoOrg /\ bugs' = {} /\ todo' = {}
          /\ at' = {} /\ unsent' = <<>> /\ limited' = FALSE /\ said' = <<>>
          /\ reached' = {} /\ failed' = {}
          /\ UNCHANGED <<debug, up, ticks, faults, queueVars, sentVars>>
      BY <1>2 DEF EndSync, BackToIdle, None
    <2>2. DOMAIN org' \subseteq Team
      BY <2>1 DEF NoOrg
    <2>3. TypeOK'
      BY <2>1, <2>2, EmptyReport DEF IInv, TypeOK, queueVars, sentVars
    <2>4. LoopInv'
      BY <2>1 DEF LoopInv
    <2>5. TicksInv'
      BY <2>1, SyncTicks DEF Awaits
    <2> QED BY <2>3, <2>4, <2>5 DEF IInv
  <1> QED BY <1>1, <1>2

(***************************************************************************)
(* A delivery to a team that has to wait, or fails, posts nothing.         *)
(***************************************************************************)
LEMMA RateLimitedIInv == ASSUME IInv, RateLimited PROVE IInv'
  <1>1. /\ faults' \in 0..MaxFaults /\ limited' = TRUE /\ unsent # <<>>
        /\ UNCHANGED <<pc, todo, at, unsent, said, reached>>
    BY BoundAssumption DEF RateLimited, Fault, IInv, TypeOK
  <1>2. TypeOK'
    BY <1>1 DEF RateLimited, queueVars, sentVars, IInv, TypeOK
  <1>3. LoopInv'
    BY <1>1 DEF IInv, LoopInv
  <1>4. TicksInv'
    BY <1>1, SyncTicks DEF RateLimited, Awaits
  <1> QED BY <1>2, <1>3, <1>4 DEF IInv

LEMMA TeamFailsIInv == ASSUME IInv, NEW t \in Team, TeamFails(t) PROVE IInv'
  <1>1. /\ LoopInv' /\ pc = "teams" /\ pc' = pc /\ todo' = todo /\ at' = at
        /\ t \in Recipient
        /\ unsent' \in Seq(Message) /\ said' \in Seq(Message) /\ limited' = FALSE
    BY VisitMessageIInv DEF TeamFails
  <1>2. /\ faults' \in 0..MaxFaults /\ failed' = failed \cup {t}
        /\ UNCHANGED <<debug, up, ticks, dirty, delayed, org, bugs, reached, sentVars>>
    BY BoundAssumption DEF TeamFails, VisitMessage, Fault, queueVars, IInv, TypeOK
  <1>3. TypeOK'
    BY <1>1, <1>2 DEF IInv, TypeOK, sentVars
  <1>4. TicksInv'
    BY <1>1, <1>2, SyncTicks DEF Awaits, queueVars
  <1> QED BY <1>1, <1>3, <1>4 DEF IInv

(***************************************************************************)
(* After the last message of a team, the team is done with.                *)
(***************************************************************************)
LEMMA EndTeamIInv == ASSUME IInv, EndTeam PROVE IInv'
  <1>1. TypeOK'
    BY DEF EndTeam, None, queueVars, sentVars, IInv, TypeOK
  <1>2. LoopInv'
    BY DEF EndTeam, None, IInv, LoopInv
  <1>3. TicksInv'
    BY SyncTicks DEF EndTeam, None, Awaits
  <1> QED BY <1>1, <1>2, <1>3 DEF IInv

(***************************************************************************)
(* Every step of the operator keeps the invariant.                         *)
(***************************************************************************)
LEMMA NextIInv == IInv /\ [Next]_vars => IInv'
  <1> SUFFICES ASSUME IInv, [Next]_vars PROVE IInv'
    OBVIOUS
  <1>1. CASE Start
    BY <1>1, StartIInv
  <1>2. CASE Dies
    <2>1. faults' \in 0..MaxFaults
      BY <1>2, BoundAssumption DEF Dies, Fault, IInv, TypeOK
    <2> QED BY <1>2, <2>1, DownIInv DEF Dies
  <1>3. CASE Tick
    BY <1>3, TickIInv
  <1>4. CASE DelayedAdd
    BY <1>4, DelayedAddIInv
  <1>5. CASE StartSync
    BY <1>5, StartSyncIInv
  <1>6. CASE OrgReconcile
    BY <1>6, OrgReconcileIInv
  <1>7. CASE BugsReconcile
    BY <1>7, BugsReconcileIInv
  <1>8. CASE EndPeople
    BY <1>8, EndPeopleIInv
  <1>9. CASE EndTeam
    BY <1>9, EndTeamIInv
  <1>10. CASE EndTeams
    <2>1. TypeOK'
      BY <1>10 DEF EndTeams, queueVars, sentVars, teamVars, IInv, TypeOK
    <2>2. LoopInv'
      BY <1>10 DEF EndTeams, None, teamVars, IInv, LoopInv
    <2>3. TicksInv'
      BY <1>10, SyncTicks DEF EndTeams, Awaits
    <2> QED BY <2>1, <2>2, <2>3 DEF IInv
  <1>11. CASE EndSync
    BY <1>11, EndSyncIInv
  <1>12. ASSUME NEW p \in Person, MessagePerson(p) PROVE IInv'
    BY <1>12, MessagePersonIInv
  <1>13. ASSUME NEW t \in Team, BeginTeam(t) PROVE IInv'
    BY <1>13, BeginTeamIInv
  <1>14. ASSUME NEW t \in Team, MessageTeam(t) PROVE IInv'
    BY <1>14, MessageTeamIInv
  <1>15. CASE BugsReconcileFails
    BY <1>15, BugsReconcileFailsIInv
  <1>16. CASE RateLimited
    BY <1>16, RateLimitedIInv
  <1>17. ASSUME NEW p \in Person, PersonFails(p) PROVE IInv'
    BY <1>17, PersonFailsIInv
  <1>18. ASSUME NEW t \in Team, TeamFails(t) PROVE IInv'
    BY <1>18, TeamFailsIInv
  <1>19. CASE UNCHANGED vars
    <2>1. TypeOK'
      BY <1>19 DEF vars, queueVars, syncVars, teamVars, sentVars, IInv, TypeOK
    <2>2. LoopInv'
      BY <1>19 DEF vars, syncVars, teamVars, IInv, LoopInv
    <2>3. TicksInv'
      BY <1>19, SyncTicks DEF vars, syncVars, teamVars, Awaits
    <2> QED BY <2>1, <2>2, <2>3 DEF IInv
  <1> QED BY <1>1, <1>2, <1>3, <1>4, <1>5, <1>6, <1>7, <1>8, <1>9, <1>10, <1>11,
             <1>12, <1>13, <1>14, <1>15, <1>16, <1>17, <1>18, <1>19
          DEF Next, Process, Worker, Failures

(***************************************************************************)
(* The invariant that accounts for every tick of the schedule.             *)
(***************************************************************************)
THEOREM Invariance == Spec => []IInv
  BY InitIInv, NextIInv, PTL DEF Spec

(***************************************************************************)
(* Nobody is messaged more often than the schedule has fired.              *)
(***************************************************************************)
THEOREM NoSpam == Spec => []AtMostOncePerTick
  <1>1. IInv => AtMostOncePerTick
    <2> SUFFICES ASSUME IInv, NEW r \in Recipient
                 PROVE  posts[r] + redirected[r] <= ticks
      BY DEF AtMostOncePerTick
    <2>1. posts[r] + redirected[r] + One(dirty) + One(delayed) + One(Awaits(r)) <= ticks
      BY DEF IInv, TicksInv
    <2>2. /\ posts[r] \in Nat /\ redirected[r] \in Nat /\ ticks \in Nat
          /\ One(dirty) \in Nat /\ One(delayed) \in Nat /\ One(Awaits(r)) \in Nat
      BY BoundAssumption DEF IInv, TypeOK, One
    <2> QED BY <2>1, <2>2
  <1> QED BY <1>1, Invariance, PTL

(***************************************************************************)
(* The messages that the loop over a report has tried and those it has     *)
(* not are together one of the reports that joinMessages can make, in      *)
(* order: a delivery that fails or has to wait takes no other with it.     *)
(***************************************************************************)
THEOREM ReportsInFull == Spec => [](at # None => said \o unsent \in Texts)
  <1>1. IInv => (at # None => said \o unsent \in Texts)
    BY DEF IInv, LoopInv, None
  <1> QED BY <1>1, Invariance, PTL

-----------------------------------------------------------------------------
(***************************************************************************)
(* The debug mode is read at the start, and no message gets past it.       *)
(***************************************************************************)
THEOREM DebugIsPrivate == Spec => []DebugStaysPrivate
  <1> USE DEF queueVars, teamVars, syncVars, sentVars
  <1>1. Init => DebugStaysPrivate
    BY DEF Init, DebugStaysPrivate
  <1>2. DebugStaysPrivate /\ [Next]_vars => DebugStaysPrivate'
    <2> SUFFICES ASSUME [Next]_vars PROVE debug' = debug /\ (debug => posts' = posts)
      BY DEF DebugStaysPrivate, Nobody
    <2>1. CASE Process
      BY <2>1 DEF Process, Start, Dies, Tick, DelayedAdd
    <2>2. CASE Worker
      BY <2>2 DEF Worker, StartSync, OrgReconcile, BugsReconcile, EndPeople, EndTeam,
                  EndTeams, EndSync, MessagePerson, VisitPerson, BeginTeam, MessageTeam,
                  VisitMessage, PostMessage
    <2>3. CASE Failures
      BY <2>3 DEF Failures, BugsReconcileFails, RateLimited, PersonFails, VisitPerson,
                  TeamFails, VisitMessage
    <2>4. CASE UNCHANGED vars
      BY <2>4 DEF vars
    <2> QED BY <2>1, <2>2, <2>3, <2>4 DEF Next
  <1> QED BY <1>1, <1>2, PTL DEF Spec

(***************************************************************************)
(* When sync returns, or the process ends, nobody has been reached yet.    *)
(***************************************************************************)
LEMMA BackToIdleReach == ASSUME BackToIdle PROVE ReachInv'
  BY DEF BackToIdle, ReachInv

(***************************************************************************)
(* A step that leaves the sync at hand alone.                              *)
(***************************************************************************)
LEMMA SyncUnchangedReach ==
  ASSUME ReachInv, UNCHANGED <<debug, syncVars>>
  PROVE  ReachInv'
  BY DEF ReachInv, Due, syncVars, teamVars

(***************************************************************************)
(* The loop over the people: one is reached, or fails, or is passed over.  *)
(***************************************************************************)
LEMMA PersonReach ==
  ASSUME ReachInv, NEW p \in Person, VisitPerson(p), debug \/ p \in Muted
             \/ (reached \cup failed)' = reached \cup failed \cup {p},
         debug \/ p \notin Muted \/ UNCHANGED <<reached, failed>>
  PROVE  ReachInv'
  <1> USE DEF VisitPerson, teamVars
  <1>1. CASE debug
    BY <1>1 DEF ReachInv
  <1>2. CASE ~debug
    <2>1. reached \cup failed \cup (todo \ Muted) = PeopleDue(org, bugs) \ Muted
      BY <1>2 DEF ReachInv
    <2>2. CASE p \in Muted
      <3>1. todo' \ Muted = todo \ Muted
        BY <2>2
      <3>2. reached' \cup failed' = reached \cup failed
        BY <1>2, <2>2
      <3> QED BY <2>1, <3>1, <3>2 DEF ReachInv
    <2>3. CASE p \notin Muted
      <3>1. reached' \cup failed' \cup (todo' \ Muted) = reached \cup failed \cup (todo \ Muted)
        BY <1>2, <2>3
      <3> QED BY <2>1, <3>1 DEF ReachInv
    <2> QED BY <2>2, <2>3
  <1> QED BY <1>1, <1>2

(***************************************************************************)
(* The loop over the messages to a team: it is reached, or it fails.       *)
(***************************************************************************)
LEMMA MessageReach ==
  ASSUME IInv, ReachInv, NEW t \in Team, VisitMessage(t),
         (reached \cup failed)' = reached \cup failed \cup {t}
  PROVE  ReachInv'
  <1> USE DEF VisitMessage
  <1>1. pc = "teams"
    BY DEF IInv, LoopInv
  <1>2. CASE ~debug
    <2>1. at = {t} /\ reached \cup failed \cup todo \cup at = Due
      BY <1>1, <1>2 DEF ReachInv
    <2>2. Due' = Due
      BY DEF Due
    <2>3. reached' \cup failed' \cup todo' \cup at' = Due'
      BY <2>1, <2>2
    <2> QED BY <1>1, <2>1, <2>3 DEF ReachInv
  <1>3. CASE debug
    BY <1>3 DEF ReachInv
  <1> QED BY <1>2, <1>3

(***************************************************************************)
(* The steps from one loop to the next.                                    *)
(***************************************************************************)
LEMMA PlaceReach ==
  ASSUME IInv, ReachInv,
         StartSync \/ OrgReconcile \/ BugsReconcile \/ EndPeople \/ EndTeam \/ EndTeams
           \/ (\E t \in Team : BeginTeam(t))
  PROVE  ReachInv'
  <1> USE DEF teamVars
  <1>1. CASE StartSync
    BY <1>1 DEF StartSync, ReachInv
  <1>2. CASE OrgReconcile
    BY <1>2 DEF OrgReconcile, ReachInv
  <1>3. CASE BugsReconcile
    BY <1>3 DEF BugsReconcile, ReachInv
  <1>4. CASE EndPeople
    <2>1. todo = {} /\ at = {} /\ unsent = <<>>
      BY <1>4 DEF EndPeople, IInv, LoopInv
    <2>2. ASSUME ~debug
          PROVE  reached \cup failed \cup TeamsDue(org, bugs) = Due
      <3>1. reached \cup failed = PeopleDue(org, bugs) \ Muted
        BY <1>4, <2>1, <2>2 DEF EndPeople, ReachInv
      <3> QED BY <3>1 DEF Due
    <2>3. Due' = Due
      BY <1>4 DEF EndPeople, Due
    <2> QED BY <1>4, <2>1, <2>2, <2>3 DEF EndPeople, ReachInv
  <1>5. CASE EndTeam
    <2>1. pc = "teams" /\ Due' = Due
      BY <1>5 DEF EndTeam, None, IInv, LoopInv, Due
    <2> QED BY <1>5, <2>1 DEF EndTeam, None, ReachInv
  <1>6. CASE EndTeams
    <2>1. Due' = Due
      BY <1>6 DEF EndTeams, Due
    <2> QED BY <1>6, <2>1 DEF EndTeams, None, ReachInv
  <1>7. ASSUME NEW t \in Team, BeginTeam(t) PROVE ReachInv'
    <2>1. Due' = Due /\ unsent' # <<>>
      BY <1>7, TextsAssumption DEF BeginTeam, Due
    <2>2. ASSUME ~debug
          PROVE  reached' \cup failed' \cup todo' \cup at' = Due
      BY <1>7, <2>2 DEF BeginTeam, None, ReachInv
    <2> QED BY <1>7, <2>1, <2>2 DEF BeginTeam, ReachInv
  <1> QED BY <1>1, <1>2, <1>3, <1>4, <1>5, <1>6, <1>7

(***************************************************************************)
(* A sync that comes to its summary has reached everyone who is due, or    *)
(* logged that it could not.                                               *)
(***************************************************************************)
THEOREM EveryoneIsReported == Spec => []ReportsToAll
  <1>1. Init => ReachInv
    BY DEF Init, ReachInv
  <1>2. IInv /\ ReachInv /\ [Next]_vars => ReachInv'
    <2> SUFFICES ASSUME IInv, ReachInv, [Next]_vars PROVE ReachInv'
      OBVIOUS
    <2>1. CASE Start \/ Tick \/ DelayedAdd \/ UNCHANGED vars
      <3>1. UNCHANGED <<debug, syncVars>>
        BY <2>1 DEF Start, Tick, DelayedAdd, vars
      <3> QED BY <3>1, SyncUnchangedReach
    <2>2. CASE Dies \/ BugsReconcileFails \/ EndSync
      <3>1. BackToIdle
        BY <2>2 DEF Dies, BugsReconcileFails, EndSync, Down
      <3> QED BY <3>1, BackToIdleReach
    <2>3. CASE RateLimited
      BY <2>3 DEF RateLimited, ReachInv, Due
    <2>4. ASSUME NEW p \in Person, MessagePerson(p) \/ PersonFails(p) PROVE ReachInv'
      <3>1. VisitPerson(p)
        BY <2>4 DEF MessagePerson, PersonFails
      <3>2. CASE debug \/ p \in Muted
        <4>1. UNCHANGED <<reached, failed>>
          BY <2>4, <3>2 DEF MessagePerson, PersonFails
        <4> QED BY <3>1, <3>2, <4>1, PersonReach
      <3>3. CASE ~debug /\ p \notin Muted
        <4>1. (reached \cup failed)' = reached \cup failed \cup {p}
          BY <2>4, <3>3 DEF MessagePerson, PersonFails, PostMessage
        <4> QED BY <3>1, <3>3, <4>1, PersonReach
      <3> QED BY <3>2, <3>3
    <2>5. ASSUME NEW t \in Team, MessageTeam(t) \/ TeamFails(t) PROVE ReachInv'
      <3>1. VisitMessage(t) /\ (reached \cup failed)' = reached \cup failed \cup {t}
        BY <2>5 DEF MessageTeam, TeamFails, PostMessage
      <3> QED BY <3>1, MessageReach
    <2> QED BY <2>1, <2>2, <2>3, <2>4, <2>5, PlaceReach
            DEF Next, Process, Worker, Failures
  <1>3. ReachInv => ReportsToAll
    BY DEF ReachInv, ReportsToAll
  <1> QED BY <1>1, <1>2, <1>3, Invariance, PTL DEF Spec

-----------------------------------------------------------------------------
(* Induction.  The principle of the least number is a fact about a set of  *)
(* numbers, and so is the induction that it gives.                         *)

(***************************************************************************)
(* A set of numbers that has one has a least one.                          *)
(***************************************************************************)
LEMMA LeastNumber ==
  ASSUME NEW T \in SUBSET Nat, T # {}
  PROVE  \E n \in T : \A k \in T : n <= k
  <1> DEFINE R == OpToRel(<, Nat)
  <1>1. IsWellFoundedOn(R, Nat)
    BY NatLessThanWellFounded, Zenon
  <1>2. \A x, y \in Nat : x < y => <<x, y>> \in R
    BY DEF OpToRel
  <1> HIDE DEF R
  <1>3. PICK n \in T : \A k \in T : ~ (<<k, n>> \in R)
    <2>1. \E n \in T : \A k \in T : ~ (<<k, n>> \in R)
      BY <1>1, WFMin
    <2> QED BY <2>1
  <1>4. \A k \in T : k \in Nat /\ n \in Nat /\ ~(k < n)
    BY <1>2, <1>3
  <1> QED BY <1>4

(***************************************************************************)
(* A set that has zero and the next of each of its numbers has all up to m.*)
(***************************************************************************)
LEMMA Induction ==
  ASSUME NEW m \in Nat, NEW T, 0 \in T, \A n \in 0..(m - 1) : n \in T => n + 1 \in T
  PROVE  0..m \subseteq T
  <1> DEFINE U == (0..m) \ T
  <1> SUFFICES ASSUME U # {} PROVE FALSE
    OBVIOUS
  <1>1. U \in SUBSET Nat
    OBVIOUS
  <1>2. PICK n \in U : \A k \in U : n <= k
    <2> HIDE DEF U
    <2> QED BY <1>1, LeastNumber
  <1>3. n - 1 \in 0..(m - 1) /\ n - 1 \in T
    BY <1>2
  <1> QED BY <1>3

(***************************************************************************)
(* The recursive definitions are sound: the functions they define exist.   *)
(***************************************************************************)
LEMMA LengthsDef ==
  ASSUME NEW S, NEW lines \in Seq(S)
  PROVE  \A n \in 0..Len(lines) :
           Lengths(lines)[n] = IF n = 0 THEN 0 ELSE Lengths(lines)[n - 1] + lines[n]
  <1> DEFINE Def(f, m) == f = [n \in 0..m |-> IF n = 0 THEN 0 ELSE f[n - 1] + lines[n]]
             T == { m \in Nat : \E f : Def(f, m) }
  <1>1. Len(lines) \in Nat
    OBVIOUS
  <1>2. 0 \in T
    <2>1. Def([n \in 0..0 |-> 0], 0)
      OBVIOUS
    <2> HIDE DEF Def
    <2> QED BY <2>1
  <1>3. ASSUME NEW m \in 0..(Len(lines) - 1), m \in T PROVE m + 1 \in T
    <2>1. PICK f : Def(f, m)
      BY <1>3
    <2> DEFINE g == [n \in 0..(m + 1) |-> IF n = 0 THEN 0 ELSE f[n - 1] + lines[n]]
    <2>2. Def(g, m + 1)
      BY <1>1, <2>1
    <2> HIDE DEF g, Def
    <2> QED BY <1>1, <2>2
  <1>4. \E f : Def(f, Len(lines))
    <2>1. Len(lines) \in T
      <3> HIDE DEF T
      <3>1. 0..Len(lines) \subseteq T
        BY <1>1, <1>2, <1>3, Induction
      <3> QED BY <1>1, <3>1
    <2> HIDE DEF Def
    <2> QED BY <2>1
  <1>5. Lengths(lines) = CHOOSE f : Def(f, Len(lines))
    BY DEF Lengths
  <1> HIDE DEF Def
  <1>6. Def(Lengths(lines), Len(lines))
    BY <1>4, <1>5, Zenon
  <1>7. Lengths(lines) = [n \in 0..Len(lines) |->
                   IF n = 0 THEN 0 ELSE Lengths(lines)[n - 1] + lines[n]]
    BY <1>6 DEF Def
  <1> QED BY <1>7

(***************************************************************************)
(* The lines of the messages before each place.                            *)
(***************************************************************************)
LEMMA BeginningsDef ==
  ASSUME NEW S, NEW messages \in Seq(S)
  PROVE  \A n \in 0..Len(messages) :
           Beginnings(messages)[n] =
               IF n = 0 THEN <<>> ELSE Beginnings(messages)[n - 1] \o messages[n]
  <1> DEFINE Def(f, m) == f = [n \in 0..m |-> IF n = 0 THEN <<>> ELSE f[n - 1] \o messages[n]]
             T == { m \in Nat : \E f : Def(f, m) }
  <1>1. Len(messages) \in Nat
    OBVIOUS
  <1>2. 0 \in T
    <2>1. Def([n \in 0..0 |-> <<>>], 0)
      OBVIOUS
    <2> HIDE DEF Def
    <2> QED BY <2>1
  <1>3. ASSUME NEW m \in 0..(Len(messages) - 1), m \in T PROVE m + 1 \in T
    <2>1. PICK f : Def(f, m)
      BY <1>3
    <2> DEFINE g == [n \in 0..(m + 1) |-> IF n = 0 THEN <<>> ELSE f[n - 1] \o messages[n]]
    <2>2. Def(g, m + 1)
      BY <1>1, <2>1
    <2> HIDE DEF g, Def
    <2> QED BY <1>1, <2>2
  <1>4. \E f : Def(f, Len(messages))
    <2>1. Len(messages) \in T
      <3> HIDE DEF T
      <3>1. 0..Len(messages) \subseteq T
        BY <1>1, <1>2, <1>3, Induction
      <3> QED BY <1>1, <3>1
    <2> HIDE DEF Def
    <2> QED BY <2>1
  <1>5. Beginnings(messages) = CHOOSE f : Def(f, Len(messages))
    BY DEF Beginnings
  <1> HIDE DEF Def
  <1>6. Def(Beginnings(messages), Len(messages))
    BY <1>4, <1>5, Zenon
  <1>7. Beginnings(messages) = [n \in 0..Len(messages) |->
                   IF n = 0 THEN <<>> ELSE Beginnings(messages)[n - 1] \o messages[n]]
    BY <1>6 DEF Def
  <1> QED BY <1>7

(***************************************************************************)
(* The loop of joinMessages.                                               *)
(***************************************************************************)
LEMMA LoopDef ==
  ASSUME NEW S, NEW in \in Seq(S)
  PROVE  \A n \in 0..Len(in) :
           Loop(in)[n] = IF n = 0 THEN NoMessages ELSE VisitLine(Loop(in)[n - 1], in[n])
  <1> DEFINE Def(f, m) ==
               f = [n \in 0..m |-> IF n = 0 THEN NoMessages ELSE VisitLine(f[n - 1], in[n])]
             T == { m \in Nat : \E f : Def(f, m) }
  <1>1. Len(in) \in Nat
    OBVIOUS
  <1>2. 0 \in T
    <2>1. Def([n \in 0..0 |-> NoMessages], 0)
      OBVIOUS
    <2> HIDE DEF Def
    <2> QED BY <2>1
  <1>3. ASSUME NEW m \in 0..(Len(in) - 1), m \in T PROVE m + 1 \in T
    <2>1. PICK f : Def(f, m)
      BY <1>3
    <2> DEFINE g == [n \in 0..(m + 1) |->
                       IF n = 0 THEN NoMessages ELSE VisitLine(f[n - 1], in[n])]
    <2>2. Def(g, m + 1)
      BY <1>1, <2>1
    <2> HIDE DEF g, Def
    <2> QED BY <1>1, <2>2
  <1>4. \E f : Def(f, Len(in))
    <2>1. Len(in) \in T
      <3> HIDE DEF T
      <3>1. 0..Len(in) \subseteq T
        BY <1>1, <1>2, <1>3, Induction
      <3> QED BY <1>1, <3>1
    <2> HIDE DEF Def
    <2> QED BY <2>1
  <1>5. Loop(in) = CHOOSE f : Def(f, Len(in))
    BY DEF Loop
  <1> HIDE DEF Def
  <1>6. Def(Loop(in), Len(in))
    BY <1>4, <1>5, Zenon
  <1>7. Loop(in) = [n \in 0..Len(in) |->
                   IF n = 0 THEN NoMessages ELSE VisitLine(Loop(in)[n - 1], in[n])]
    BY <1>6 DEF Def
  <1> QED BY <1>7

(***************************************************************************)
(* What lines add up to is a number.                                       *)
(***************************************************************************)
LEMMA LengthsType ==
  ASSUME NEW lines \in Seq(Nat), NEW n \in 0..Len(lines)
  PROVE  Lengths(lines)[n] \in Nat
  <1> DEFINE T == { k \in Nat : Lengths(lines)[k] \in Nat }
  <1>1. Len(lines) \in Nat
    OBVIOUS
  <1>2. \A k \in 0..Len(lines) :
          Lengths(lines)[k] = IF k = 0 THEN 0 ELSE Lengths(lines)[k - 1] + lines[k]
    BY LengthsDef
  <1>3. 0 \in T
    BY <1>1, <1>2
  <1>4. ASSUME NEW k \in 0..(Len(lines) - 1), k \in T PROVE k + 1 \in T
    <2>1. Lengths(lines)[k + 1] = Lengths(lines)[k] + lines[k + 1]
      BY <1>1, <1>2
    <2>2. lines[k + 1] \in Nat
      BY <1>1
    <2> QED BY <1>4, <2>1, <2>2
  <1>5. 0..Len(lines) \subseteq T
    <2> HIDE DEF T
    <2> QED BY <1>1, <1>3, <1>4, Induction
  <1> QED BY <1>5

(***************************************************************************)
(* The length of lines and one more.                                       *)
(***************************************************************************)
LEMMA TotalOfMore ==
  ASSUME NEW lines \in Seq(Nat), NEW x \in Nat
  PROVE  Total(Append(lines, x)) = Total(lines) + x
  <1> DEFINE more == Append(lines, x)
             T == { k \in Nat : Lengths(more)[k] = Lengths(lines)[k] }
  <1>1. /\ Len(lines) \in Nat /\ more \in Seq(Nat) /\ Len(more) = Len(lines) + 1
        /\ more[Len(lines) + 1] = x /\ \A k \in 1..Len(lines) : more[k] = lines[k]
    OBVIOUS
  <1> HIDE DEF more
  <1>2. \A k \in 0..Len(lines) :
          Lengths(lines)[k] = IF k = 0 THEN 0 ELSE Lengths(lines)[k - 1] + lines[k]
    BY LengthsDef
  <1>3. \A k \in 0..(Len(lines) + 1) :
          Lengths(more)[k] = IF k = 0 THEN 0 ELSE Lengths(more)[k - 1] + more[k]
    BY <1>1, LengthsDef
  <1>4. 0 \in T
    BY <1>1, <1>2, <1>3
  <1>5. ASSUME NEW k \in 0..(Len(lines) - 1), k \in T PROVE k + 1 \in T
    <2>1. k + 1 \in 0..Len(lines) /\ k + 1 \in 0..(Len(lines) + 1) /\ (k + 1) - 1 = k
          /\ k + 1 # 0 /\ k + 1 \in 1..Len(lines)
      BY <1>1
    <2>2. Lengths(lines)[k + 1] = Lengths(lines)[k] + lines[k + 1]
      BY <1>2, <2>1
    <2>3. Lengths(more)[k + 1] = Lengths(more)[k] + lines[k + 1]
      BY <1>1, <1>3, <2>1
    <2> QED BY <1>5, <2>2, <2>3
  <1>6. Len(lines) \in T
    <2> HIDE DEF T
    <2>1. 0..Len(lines) \subseteq T
      BY <1>1, <1>4, <1>5, Induction
    <2> QED BY <1>1, <2>1
  <1>7. Lengths(more)[Len(lines) + 1] = Lengths(lines)[Len(lines)] + x
    <2>1. Lengths(more)[Len(lines) + 1] = Lengths(more)[Len(lines)] + x
      BY <1>1, <1>3
    <2> QED BY <1>6, <2>1
  <1> QED BY <1>1, <1>7 DEF Total, more

(***************************************************************************)
(* The lengths are numbers; that of one line is its own.                   *)
(***************************************************************************)
LEMMA Totals ==
  /\ Total(<<>>) = 0
  /\ \A lines \in Seq(Nat) : Total(lines) \in Nat
  /\ \A x \in Nat : Total(<<x>>) = x
  <1>1. Total(<<>>) = 0
    <2>1. <<>> \in Seq(Nat) /\ Len(<<>>) = 0
      OBVIOUS
    <2>2. ASSUME NEW lines \in Seq(Nat), Len(lines) = 0 PROVE Total(lines) = 0
      <3>1. 0 \in 0..Len(lines)
        BY <2>2
      <3> QED BY <2>2, <3>1, LengthsDef DEF Total
    <2> QED BY <2>1, <2>2
  <1>2. ASSUME NEW lines \in Seq(Nat) PROVE Total(lines) \in Nat
    BY LengthsType DEF Total
  <1>3. ASSUME NEW x \in Nat PROVE Total(<<x>>) = x
    <2>1. <<>> \in Seq(Nat) /\ Append(<<>>, x) = <<x>>
      OBVIOUS
    <2>2. Total(<<x>>) = Total(<<>>) + x
      BY <2>1, TotalOfMore
    <2> QED BY <1>1, <2>2
  <1> QED BY <1>1, <1>2, <1>3

(***************************************************************************)
(* The lines of messages: those of one message more come after the others. *)
(***************************************************************************)
LEMMA LinesOfMore ==
  ASSUME NEW messages \in Seq(Seq(Nat)), NEW m \in Seq(Nat)
  PROVE  Lines(Append(messages, m)) = Lines(messages) \o m
  <1> DEFINE more == Append(messages, m)
             T == { k \in Nat : Beginnings(more)[k] = Beginnings(messages)[k] }
  <1>1. /\ Len(messages) \in Nat /\ more \in Seq(Seq(Nat)) /\ Len(more) = Len(messages) + 1
        /\ more[Len(messages) + 1] = m
        /\ \A k \in 1..Len(messages) : more[k] = messages[k]
    OBVIOUS
  <1> HIDE DEF more
  <1>2. \A k \in 0..Len(messages) : Beginnings(messages)[k] =
          IF k = 0 THEN <<>> ELSE Beginnings(messages)[k - 1] \o messages[k]
    BY BeginningsDef
  <1>3. \A k \in 0..(Len(messages) + 1) : Beginnings(more)[k] =
          IF k = 0 THEN <<>> ELSE Beginnings(more)[k - 1] \o more[k]
    BY <1>1, BeginningsDef
  <1>4. 0 \in T
    BY <1>1, <1>2, <1>3
  <1>5. ASSUME NEW k \in 0..(Len(messages) - 1), k \in T PROVE k + 1 \in T
    <2>1. k + 1 \in 0..Len(messages) /\ k + 1 \in 0..(Len(messages) + 1) /\ (k + 1) - 1 = k
          /\ k + 1 # 0 /\ k + 1 \in 1..Len(messages)
      BY <1>1
    <2>2. Beginnings(messages)[k + 1] = Beginnings(messages)[k] \o messages[k + 1]
      BY <1>2, <2>1
    <2>3. Beginnings(more)[k + 1] = Beginnings(more)[k] \o messages[k + 1]
      BY <1>1, <1>3, <2>1
    <2>4. Beginnings(more)[k] = Beginnings(messages)[k]
      BY <1>5
    <2>5. Beginnings(more)[k + 1] = Beginnings(messages)[k + 1]
      BY <2>2, <2>3, <2>4
    <2>6. k + 1 \in Nat
      BY <2>1
    <2> QED BY <2>5, <2>6
  <1>6. Len(messages) \in T
    <2> DEFINE m0 == Len(messages)
    <2>1. m0 \in Nat /\ m0 \in 0..m0
      BY <1>1
    <2>2. \A k \in 0..(m0 - 1) : k \in T => k + 1 \in T
      BY <1>5
    <2> HIDE DEF T, m0
    <2>3. 0..m0 \subseteq T
      BY <1>4, <2>1, <2>2, Induction
    <2>4. m0 \in T
      BY <2>1, <2>3
    <2> QED BY <2>4 DEF m0
  <1>7. Beginnings(more)[Len(messages) + 1] = Beginnings(messages)[Len(messages)] \o m
    <2>1. /\ Len(messages) + 1 \in 0..(Len(messages) + 1) /\ Len(messages) + 1 # 0
          /\ (Len(messages) + 1) - 1 = Len(messages)
      BY <1>1
    <2>2. Beginnings(more)[Len(messages) + 1] = Beginnings(more)[Len(messages)] \o m
      BY <1>1, <1>3, <2>1
    <2> QED BY <1>6, <2>2
  <1> QED BY <1>1, <1>7 DEF Lines, more

(***************************************************************************)
(* No messages have no lines.                                              *)
(***************************************************************************)
LEMMA NoLines == Lines(<<>>) = <<>>
  <1>1. <<>> \in Seq(Seq(Nat)) /\ Len(<<>>) = 0
    OBVIOUS
  <1>2. ASSUME NEW messages \in Seq(Seq(Nat)), Len(messages) = 0
        PROVE  Lines(messages) = <<>>
    <2>1. 0 \in 0..Len(messages)
      BY <1>2
    <2> QED BY <1>2, <2>1, BeginningsDef DEF Lines
  <1> QED BY <1>1, <1>2

-----------------------------------------------------------------------------
(* joinMessages. *)

\* What the loop has made of the first n lines: messages that hold them in
\* order, that Slack takes, and of which no two neighbours fit into one.
Joined(s, in, n) ==
    /\ s \in [out : Seq(Seq(Nat)), cur : Seq(Nat), curLen : Nat]
    /\ s.curLen = Total(s.cur)
    /\ Lines(s.out) \in Seq(Nat) /\ Lines(s.out) \o s.cur = SubSeq(in, 1, n)
    /\ n = 0 => s = NoMessages
    /\ n # 0 => Sendable(s.cur)
    /\ \A k \in 1..Len(s.out) : Sendable(s.out[k])
    /\ \A k \in 2..Len(s.out) : Total(s.out[k - 1]) + Total(s.out[k]) >= Limit
    /\ s.out # <<>> => Total(s.out[Len(s.out)]) + s.curLen >= Limit

(***************************************************************************)
(* A message with a line more is a message that has a line.                *)
(***************************************************************************)
LEMMA OneMore ==
  \A m \in Seq(Nat) : \A x \in Nat : Append(m, x) # <<>> /\ Append(m, x) \in Seq(Nat)
  <1>1. \A m \in Seq(Nat) : \A x \in Nat : Append(m, x) # <<>>
    OBVIOUS
  <1>2. \A m \in Seq(Nat) : \A x \in Nat : Append(m, x) \in Seq(Nat)
    OBVIOUS
  <1> QED BY <1>1, <1>2, Zenon

(***************************************************************************)
(* How sequences of lines are put together does not matter.                *)
(***************************************************************************)
LEMMA OneAfterAnother ==
  \A a, b, c \in Seq(Nat) : (a \o b) \o c = a \o (b \o c)
  BY ConcatAssociative

(***************************************************************************)
(* The next line is the last of the first n + 1.                           *)
(***************************************************************************)
LEMMA OneLineMore ==
  ASSUME NEW in \in Seq(Nat), NEW n \in 0..(Len(in) - 1),
         NEW before \in Seq(Nat), NEW cur \in Seq(Nat),
         before \o cur = SubSeq(in, 1, n)
  PROVE  /\ in[n + 1] \in Nat
         /\ before \o Append(cur, in[n + 1]) = SubSeq(in, 1, n + 1)
         /\ (before \o cur) \o <<in[n + 1]>> = SubSeq(in, 1, n + 1)
  <1>1. /\ Len(in) \in Nat /\ 1 \in 1..Len(in) /\ n + 1 \in 1..Len(in) /\ (n + 1) - 1 = n
        /\ in[n + 1] \in Nat
    OBVIOUS
  <1>2. SubSeq(in, 1, n + 1) = SubSeq(in, 1, n) \o <<in[n + 1]>>
    BY <1>1, SubSeqRecursiveSecond
  <1>3. Append(cur, in[n + 1]) = cur \o <<in[n + 1]>>
    BY <1>1, AppendIsConcat
  <1>4. (before \o cur) \o <<in[n + 1]>> = before \o (cur \o <<in[n + 1]>>)
    <2>1. <<in[n + 1]>> \in Seq(Nat)
      BY <1>1
    <2> QED BY <2>1, OneAfterAnother
  <1> QED BY <1>1, <1>2, <1>3, <1>4

(***************************************************************************)
(* A line that fits.                                                       *)
(***************************************************************************)
LEMMA AddLineJoins ==
  ASSUME NEW in \in Seq(Nat), NEW n \in 0..(Len(in) - 1), NEW s, Joined(s, in, n),
         s.curLen + in[n + 1] < Limit
  PROVE  Joined(AddLine(s, in[n + 1]), in, n + 1)
  <1> DEFINE line == in[n + 1]
             t == AddLine(s, line)
  <1>1. /\ s.out \in Seq(Seq(Nat)) /\ s.cur \in Seq(Nat) /\ s.curLen \in Nat
        /\ s.curLen = Total(s.cur) /\ Lines(s.out) \in Seq(Nat)
        /\ Lines(s.out) \o s.cur = SubSeq(in, 1, n)
    BY DEF Joined
  <1>2. line \in Nat /\ Lines(s.out) \o Append(s.cur, line) = SubSeq(in, 1, n + 1)
    BY <1>1, OneLineMore
  <1>3. t = [out |-> s.out, cur |-> Append(s.cur, line), curLen |-> s.curLen + line]
    BY DEF AddLine
  <1>4. n + 1 # 0 /\ s.curLen + line \in Nat
    BY <1>1, <1>2
  <1> HIDE DEF t, line
  <1>5. Total(Append(s.cur, line)) = s.curLen + line
    BY <1>1, <1>2, TotalOfMore
  <1>6. Append(s.cur, line) # <<>> /\ Append(s.cur, line) \in Seq(Nat)
    BY <1>1, <1>2, OneMore, Zenon
  <1>7. Sendable(Append(s.cur, line))
    <2>1. ~(Total(Append(s.cur, line)) >= Limit)
      BY <1>4, <1>5 DEF Limit, line
    <2> QED BY <1>6, <2>1 DEF Sendable
  <1>8. t.out = s.out /\ t.cur = Append(s.cur, line) /\ t.curLen = s.curLen + line
    BY <1>3
  <1>9. t \in [out : Seq(Seq(Nat)), cur : Seq(Nat), curLen : Nat]
    BY <1>1, <1>3, <1>4, <1>6
  <1>10. t.out # <<>> => Total(t.out[Len(t.out)]) + t.curLen >= Limit
    <2> SUFFICES ASSUME s.out # <<>>
                 PROVE  Total(s.out[Len(s.out)]) + (s.curLen + line) >= Limit
      BY <1>8
    <2>1. Total(s.out[Len(s.out)]) + s.curLen >= Limit
      BY DEF Joined
    <2>2. s.out[Len(s.out)] \in Seq(Nat)
      BY <1>1
    <2>3. Total(s.out[Len(s.out)]) \in Nat
      BY <2>2, Totals
    <2> QED BY <1>1, <1>2, <2>1, <2>3 DEF Limit
  <1>11. /\ \A k \in 1..Len(s.out) : Sendable(s.out[k])
         /\ \A k \in 2..Len(s.out) : Total(s.out[k - 1]) + Total(s.out[k]) >= Limit
    BY DEF Joined
  <1>12. Joined(t, in, n + 1)
    BY <1>1, <1>2, <1>4, <1>5, <1>7, <1>8, <1>9, <1>10, <1>11 DEF Joined
  <1> QED BY <1>12 DEF t, line

(***************************************************************************)
(* A line that does not, which is never the first.                         *)
(***************************************************************************)
LEMMA NextMessageJoins ==
  ASSUME NEW in \in Seq(Nat), NEW n \in 0..(Len(in) - 1), NEW s, Joined(s, in, n),
         n # 0, ~(s.curLen + in[n + 1] < Limit)
  PROVE  Joined(NextMessage(s, in[n + 1]), in, n + 1)
  <1> DEFINE line == in[n + 1]
             t == NextMessage(s, line)
             more == Append(s.out, s.cur)
  <1>1. /\ s.out \in Seq(Seq(Nat)) /\ s.cur \in Seq(Nat) /\ s.curLen \in Nat
        /\ s.curLen = Total(s.cur) /\ Lines(s.out) \in Seq(Nat)
        /\ Lines(s.out) \o s.cur = SubSeq(in, 1, n)
        /\ Sendable(s.cur)
        /\ \A k \in 1..Len(s.out) : Sendable(s.out[k])
        /\ \A k \in 2..Len(s.out) : Total(s.out[k - 1]) + Total(s.out[k]) >= Limit
        /\ s.out # <<>> => Total(s.out[Len(s.out)]) + s.curLen >= Limit
    BY DEF Joined
  <1>2. line \in Nat /\ (Lines(s.out) \o s.cur) \o <<line>> = SubSeq(in, 1, n + 1)
    BY <1>1, OneLineMore
  <1>3. t.out = more /\ t.cur = <<line>> /\ t.curLen = line
    BY DEF NextMessage
  <1>4. t \in [out : Seq(Seq(Nat)), cur : Seq(Nat), curLen : Nat]
    BY <1>1, <1>2 DEF NextMessage
  <1>5. s.curLen + line >= Limit
    BY <1>1, <1>2 DEF Limit, line
  <1> HIDE DEF t, line
  <1>6. /\ Len(s.out) \in Nat /\ more \in Seq(Seq(Nat)) /\ Len(more) = Len(s.out) + 1
        /\ more[Len(s.out) + 1] = s.cur /\ \A k \in 1..Len(s.out) : more[k] = s.out[k]
    BY <1>1
  <1>7. Lines(more) = Lines(s.out) \o s.cur
    BY <1>1, LinesOfMore
  <1> HIDE DEF more
  <1>8. Lines(more) \in Seq(Nat) /\ Lines(more) \o <<line>> = SubSeq(in, 1, n + 1)
    <2>1. Lines(s.out) \o s.cur \in Seq(Nat)
      BY <1>1, ConcatProperties
    <2> QED BY <1>2, <1>7, <2>1
  <1>9. Sendable(<<line>>) /\ Total(<<line>>) = line
    BY <1>2, Totals DEF Sendable
  <1>10. ASSUME NEW k \in 1..Len(more) PROVE Sendable(more[k])
    <2>1. k \in 1..Len(s.out) \/ k = Len(s.out) + 1
      BY <1>6
    <2> QED BY <1>1, <1>6, <2>1
  <1>11. ASSUME NEW k \in 2..Len(more) PROVE Total(more[k - 1]) + Total(more[k]) >= Limit
    <2>1. CASE k \in 2..Len(s.out)
      <3>1. k - 1 \in 1..Len(s.out) /\ k \in 1..Len(s.out)
        BY <1>6, <2>1
      <3>2. more[k - 1] = s.out[k - 1] /\ more[k] = s.out[k]
        BY <1>6, <3>1
      <3>3. Total(s.out[k - 1]) + Total(s.out[k]) >= Limit
        BY <1>1, <2>1
      <3> QED BY <3>2, <3>3
    <2>2. CASE k = Len(s.out) + 1
      <3>1. k - 1 = Len(s.out) /\ Len(s.out) \in 1..Len(s.out)
        BY <1>6, <2>2
      <3>2. s.out # <<>>
        BY <1>6, <3>1
      <3>3. more[k - 1] = s.out[Len(s.out)] /\ more[k] = s.cur
        BY <1>6, <2>2, <3>1
      <3> QED BY <1>1, <3>2, <3>3
    <2>3. k \in 2..Len(s.out) \/ k = Len(s.out) + 1
      BY <1>6
    <2> QED BY <2>1, <2>2, <2>3
  <1>12. Total(more[Len(more)]) + line >= Limit
    BY <1>1, <1>5, <1>6
  <1>13. n + 1 # 0
    OBVIOUS
  <1>14. Joined(t, in, n + 1)
    BY <1>3, <1>4, <1>6, <1>8, <1>9, <1>10, <1>11, <1>12, <1>13 DEF Joined
  <1> QED BY <1>14 DEF t, line

(***************************************************************************)
(* What joinMessages makes of lines of which the first fits.               *)
(***************************************************************************)
LEMMA LoopJoins ==
  ASSUME NEW in \in Seq(Nat), in # <<>>, in[1] < Limit
  PROVE  Joined(Loop(in)[Len(in)], in, Len(in))
  <1> DEFINE T == { n \in Nat : Joined(Loop(in)[n], in, n) }
             last == Len(in)
  <1>1. last \in Nat /\ last # 0 /\ in[1] \in Nat
    OBVIOUS
  <1>2. Loop(in)[0] = NoMessages
    BY <1>1, LoopDef
  <1>3. 0 \in T
    <2>1. <<>> \in Seq(Nat) /\ <<>> \in Seq(Seq(Nat)) /\ Len(<<>>) = 0 /\ <<>> \o <<>> = <<>>
      OBVIOUS
    <2>2. SubSeq(in, 1, 0) = <<>>
      BY SubSeqEmpty
    <2>3. /\ NoMessages.out = <<>> /\ NoMessages.cur = <<>> /\ NoMessages.curLen = 0
          /\ NoMessages \in [out : Seq(Seq(Nat)), cur : Seq(Nat), curLen : Nat]
      BY <2>1 DEF NoMessages
    <2>4. Joined(NoMessages, in, 0)
      BY <2>1, <2>2, <2>3, Totals, NoLines DEF Joined
    <2> QED BY <1>2, <2>4
  <1>4. ASSUME NEW n \in 0..(last - 1), n \in T PROVE n + 1 \in T
    <2>1. n + 1 \in 0..last /\ n + 1 # 0 /\ (n + 1) - 1 = n /\ n + 1 \in Nat
      BY <1>1
    <2>2. Loop(in)[n + 1] = VisitLine(Loop(in)[n], in[n + 1])
      BY <2>1, LoopDef
    <2>3. Joined(Loop(in)[n], in, n)
      BY <1>4
    <2>4. CASE Loop(in)[n].curLen + in[n + 1] < Limit
      BY <2>1, <2>2, <2>3, <2>4, AddLineJoins DEF VisitLine
    <2>5. CASE ~(Loop(in)[n].curLen + in[n + 1] < Limit)
      <3>1. n # 0
        <4> SUFFICES ASSUME n = 0 PROVE FALSE
          OBVIOUS
        <4>1. Loop(in)[n].curLen = 0
          BY <1>2 DEF NoMessages
        <4> QED BY <1>1, <2>5, <4>1
      <3> QED BY <2>1, <2>2, <2>3, <2>5, <3>1, NextMessageJoins DEF VisitLine
    <2> QED BY <2>4, <2>5
  <1>5. last \in T
    <2> HIDE DEF T, last
    <2>1. 0..last \subseteq T
      BY <1>1, <1>3, <1>4, Induction
    <2> QED BY <1>1, <2>1
  <1> QED BY <1>5

(***************************************************************************)
(* joinMessages keeps every line of a report, in order, in messages that   *)
(* Slack takes, and cuts no more than it must.                             *)
(***************************************************************************)
THEOREM MessagesHoldReport ==
  \A in \in Reports :
      LET messages == joinMessages(in)
      IN  /\ Lines(messages) = in
          /\ \A n \in 1..Len(messages) : Sendable(messages[n])
          /\ \A n \in 2..Len(messages) :
                 Total(messages[n - 1]) + Total(messages[n]) >= Limit
  <1> SUFFICES ASSUME NEW in \in Reports
               PROVE  LET messages == joinMessages(in)
                      IN  /\ Lines(messages) = in
                          /\ \A n \in 1..Len(messages) : Sendable(messages[n])
                          /\ \A n \in 2..Len(messages) :
                                 Total(messages[n - 1]) + Total(messages[n]) >= Limit
    OBVIOUS
  <1>1. in \in Seq(Nat) /\ in # <<>> /\ in[1] < Limit
    <2>1. PICK lines \in [1..LineCount -> LineLengths] : in = <<HeaderLength>> \o lines
      BY DEF Reports
    <2>2. lines \in Seq(Nat)
      <3>1. LineCount \in Nat /\ LineLengths \subseteq Nat
        BY LengthAssumption, CountAssumption
      <3>2. lines \in [1..LineCount -> Nat]
        BY <2>1, <3>1
      <3>3. \A n \in Nat : \A f \in [1..n -> Nat] : f \in Seq(Nat)
        OBVIOUS
      <3> QED BY <3>1, <3>2, <3>3
    <2>3. HeaderLength \in Nat /\ HeaderLength < Limit
      BY HeaderAssumption DEF Limit
    <2> QED BY <2>1, <2>2, <2>3
  <1> DEFINE s == Loop(in)[Len(in)]
             messages == Append(s.out, s.cur)
  <1>2. Joined(s, in, Len(in)) /\ Len(in) # 0
    BY <1>1, LoopJoins
  <1>3. joinMessages(in) = messages
    BY DEF joinMessages
  <1> HIDE DEF s
  <1>4. /\ s.out \in Seq(Seq(Nat)) /\ s.cur \in Seq(Nat) /\ s.curLen = Total(s.cur)
        /\ Lines(s.out) \o s.cur = SubSeq(in, 1, Len(in))
        /\ Sendable(s.cur)
        /\ \A k \in 1..Len(s.out) : Sendable(s.out[k])
        /\ \A k \in 2..Len(s.out) : Total(s.out[k - 1]) + Total(s.out[k]) >= Limit
        /\ s.out # <<>> => Total(s.out[Len(s.out)]) + s.curLen >= Limit
    BY <1>2 DEF Joined
  <1>5. Lines(messages) = in
    BY <1>1, <1>4, LinesOfMore, SubSeqFull
  <1>6. /\ Len(s.out) \in Nat /\ Len(messages) = Len(s.out) + 1
        /\ messages[Len(s.out) + 1] = s.cur
        /\ \A k \in 1..Len(s.out) : messages[k] = s.out[k]
    BY <1>4
  <1> HIDE DEF messages
  <1>7. ASSUME NEW k \in 1..Len(messages) PROVE Sendable(messages[k])
    <2>1. k \in 1..Len(s.out) \/ k = Len(s.out) + 1
      BY <1>6
    <2> QED BY <1>4, <1>6, <2>1
  <1>8. ASSUME NEW k \in 2..Len(messages)
        PROVE  Total(messages[k - 1]) + Total(messages[k]) >= Limit
    <2>1. CASE k \in 2..Len(s.out)
      <3>1. k - 1 \in 1..Len(s.out) /\ k \in 1..Len(s.out)
        BY <1>6, <2>1
      <3>2. messages[k - 1] = s.out[k - 1] /\ messages[k] = s.out[k]
        BY <1>6, <3>1
      <3>3. Total(s.out[k - 1]) + Total(s.out[k]) >= Limit
        BY <1>4, <2>1
      <3> QED BY <3>2, <3>3
    <2>2. CASE k = Len(s.out) + 1
      <3>1. k - 1 = Len(s.out) /\ Len(s.out) \in 1..Len(s.out)
        BY <1>6, <2>2
      <3>2. s.out # <<>>
        BY <1>6, <3>1
      <3>3. messages[k - 1] = s.out[Len(s.out)] /\ messages[k] = s.cur
        BY <1>6, <2>2, <3>1
      <3> QED BY <1>4, <3>2, <3>3
    <2>3. k \in 2..Len(s.out) \/ k = Len(s.out) + 1
      BY <1>6
    <2> QED BY <2>1, <2>2, <2>3
  <1> QED BY <1>3, <1>5, <1>7, <1>8

(***************************************************************************)
(* The loop over the teams tries to send what joinMessages has made of the *)
(* report at hand, and so each of its lines once and in order, in messages *)
(* that Slack takes and of which no two neighbours would fit into one.     *)
(***************************************************************************)
THEOREM NothingIsLost == Spec => []LosesNothing
  <1>1. (at # None => said \o unsent \in Texts) => LosesNothing
    <2> SUFFICES ASSUME at # None, ReportAtHand \in Texts
                 PROVE  /\ Lines(ReportAtHand) \in Reports
                        /\ \A n \in 1..Len(ReportAtHand) : Sendable(ReportAtHand[n])
                        /\ \A n \in 2..Len(ReportAtHand) :
                             Total(ReportAtHand[n - 1]) + Total(ReportAtHand[n]) >= Limit
      BY DEF LosesNothing, ReportAtHand
    <2>1. PICK in \in Reports : ReportAtHand = joinMessages(in)
      BY JoinedAssumption DEF JoinedReports
    <2> QED BY <2>1, MessagesHoldReport
  <1> QED BY <1>1, ReportsInFull, PTL
=============================================================================
