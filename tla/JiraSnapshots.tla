--------------------------- MODULE JiraSnapshots ---------------------------
(***************************************************************************)
(* cmd/jira-daily-diff with pkg/jira: a controller that searches Jira      *)
(* every minute and writes what it found to the file of the day, and the   *)
(* handler of /diff, which compares the files of two days.                 *)
(*                                                                         *)
(* ioutil.WriteFile truncates the file and writes it: a crash or a failure *)
(* between the two leaves a part, and a reader may see it at any moment.   *)
(* Issues are numbered in the order of their keys, which is the order of   *)
(* the file; what the file says of an issue besides its key is left out.   *)
(***************************************************************************)
EXTENDS SearchPages, FiniteSets

CONSTANTS
    Issues,      \* the keys of the issues
    MaxDays,     \* bound: days
    MaxMoves,    \* bound: issues that join or leave the result of the query
    MaxFailures  \* bound: calls that fail, writes that fail and crashes

ASSUME BoundAssumption ==
    /\ Issues \subseteq Nat /\ IsFiniteSet(Issues)
    /\ MaxDays \in Nat \ {0}
    /\ MaxMoves \in Nat /\ MaxFailures \in Nat

Day == 1..MaxDays

\* A file: the issues that it holds, whether its text parses, and whether it
\* is all of what was to be written.
Snapshot == [issues : SUBSET Issues, parses : BOOLEAN, whole : BOOLEAN]
Truncated == [issues |-> {}, parses |-> TRUE, whole |-> FALSE]
Unreadable == [issues |-> {}, parses |-> FALSE, whole |-> FALSE]
Absent == [issues |-> {}, parses |-> FALSE, whole |-> TRUE]

\* What the beginning of the file of a set of issues can hold.
Beginnings(found) == { {k \in found : k < n} : n \in Issues }

VARIABLES
    matches,   \* the issues that match the query, in Jira's order
    day,       \* today
    file,      \* the snapshot of each day
    up,        \* the process runs
    sync,      \* the controller: "idle", "search" or "write"
    last,      \* where the next page starts
    found,     \* the issues of the pages so far
    target,    \* the day whose file is being written, 0 if none is
    diff,      \* the handler: "none", "old", "new" or "infos"
    dates,     \* the two dates asked for
    old, new,  \* what was read of them
    exact,     \* history: both files were whole when read
    left,      \* history: how many issues have left the result
    stable,    \* history: the issues that have been in the result all the time
    moves, failures

syncVars  == <<sync, last, found, target>>
diffVars  == <<diff, dates, old, new, exact>>
issueVars == <<matches, left, stable, moves>>
jiraVars == <<issueVars, day, file, up, syncVars, diffVars, failures>>

JiraTypeOK ==
    /\ matches \in Seq(Issues) /\ day \in Day
    /\ file \in [Day -> Snapshot]
    /\ up \in BOOLEAN
    /\ sync \in {"idle", "search", "write"}
    /\ last \in Nat /\ found \subseteq Issues
    /\ target \in Day \cup {0}
    /\ target # 0 => sync = "write" /\ file[target] # Absent /\ ~file[target].whole
    /\ diff \in {"none", "old", "new", "infos"}
    /\ dates \in Day \X Day
    /\ old \subseteq Issues /\ new \subseteq Issues /\ exact \in BOOLEAN
    /\ left \in 0..moves /\ stable \subseteq Range(matches)
    /\ moves \in 0..MaxMoves /\ failures \in 0..MaxFailures

\* At first all issues but at most one are in the result.
JiraInit ==
    /\ \E k \in Issues : matches \in {SetToSeq(Issues), SetToSeq(Issues \ {k})}
    /\ day = 1
    /\ file = [d \in Day |-> Absent]
    /\ up = FALSE
    /\ sync = "idle" /\ last = 0 /\ found = {} /\ target = 0
    /\ diff = "none" /\ dates = <<1, 1>> /\ old = {} /\ new = {} /\ exact = TRUE
    /\ left = 0 /\ stable = Range(matches)
    /\ moves = 0 /\ failures = 0

-----------------------------------------------------------------------------
(* Jira and the calendar. *)

Changed == moves < MaxMoves /\ moves' = moves + 1

Join(k) ==
    /\ k \notin Range(matches)
    /\ Changed
    /\ matches' \in Joined(matches, k)
    /\ UNCHANGED <<left, stable, day, file, up, syncVars, diffVars, failures>>

Leave(k) ==
    /\ k \in Range(matches)
    /\ Changed
    /\ matches' = Left(matches, k)
    /\ left' = left + 1
    /\ stable' = stable \ {k}
    /\ UNCHANGED <<day, file, up, syncVars, diffVars, failures>>

Midnight ==
    /\ day < MaxDays
    /\ day' = day + 1
    /\ UNCHANGED <<issueVars, file, up, syncVars, diffVars, failures>>

-----------------------------------------------------------------------------
(* The process. *)

Fault == failures < MaxFailures /\ failures' = failures + 1

Start ==
    /\ ~up
    /\ up' = TRUE
    /\ UNCHANGED <<issueVars, day, file, syncVars, diffVars, failures>>

\* A crash, a signal, or a server that cannot listen; files stay as they are.
Crash ==
    /\ up /\ Fault
    /\ up' = FALSE
    /\ sync' = "idle" /\ last' = 0 /\ found' = {} /\ target' = 0
    /\ diff' = "none" /\ dates' = <<1, 1>> /\ old' = {} /\ new' = {} /\ exact' = TRUE
    /\ UNCHANGED <<issueVars, day, file>>

-----------------------------------------------------------------------------
(* The controller. *)

\* The schedule queues the controller's key every minute, and the rate
\* limiter does so after an error.
StartSync ==
    /\ up /\ sync = "idle"
    /\ sync' = "search" /\ last' = 0 /\ found' = {}
    /\ UNCHANGED <<issueVars, day, file, up, target, diffVars, failures>>

\* Mutant of SyncFails: the file stays open.
SyncFailsMidway == sync' = "idle" /\ last' = 0 /\ found' = {} /\ UNCHANGED target

\* sync returns an error.
SyncFails == sync' = "idle" /\ last' = 0 /\ found' = {} /\ target' = 0

\* Mutant of FetchPage: the next page starts a whole page later.
FetchPageBlindly ==
    /\ sync = "search"
    /\ LET chunk == Page(matches, last)
           next  == last + PageSize + 1
       IN  /\ found' = found \cup Range(chunk)
           /\ IF next >= Len(matches) THEN sync' = "write" /\ last' = 0
                                      ELSE last' = next /\ UNCHANGED sync
    /\ UNCHANGED <<issueVars, day, file, up, target, diffVars, failures>>

\* One iteration of GetIssues; total is that of the answer.
FetchPage ==
    /\ sync = "search"
    /\ LET chunk == Page(matches, last)
           next  == last + Len(chunk)
       IN  /\ found' = found \cup Range(chunk)
           /\ IF next >= Len(matches) THEN sync' = "write" /\ last' = 0
                                      ELSE last' = next /\ UNCHANGED sync
    /\ UNCHANGED <<issueVars, day, file, up, target, diffVars, failures>>

SearchFails ==
    /\ sync = "search" /\ Fault
    /\ SyncFails
    /\ UNCHANGED <<issueVars, day, file, up, diffVars>>

\* WriteIssues takes the day and opens the file, which truncates it.
OpenFile ==
    /\ sync = "write" /\ target = 0
    /\ target' = day
    /\ file' = [file EXCEPT ![day] = Truncated]
    /\ UNCHANGED <<issueVars, day, up, sync, last, found, diffVars, failures>>

\* The beginning of the text is in the file; it may end within an entry.
WriteSome ==
    /\ target # 0
    /\ file[target] = Truncated
    /\ \E part \in { [issues |-> b, parses |-> TRUE, whole |-> FALSE] :
                       b \in Beginnings(found) } \cup {Unreadable} :
         file' = [file EXCEPT ![target] = part]
    /\ UNCHANGED <<issueVars, day, up, syncVars, diffVars, failures>>

\* Mutant of WriteRest: the day is taken again for the name of the file.
WriteRestToday ==
    /\ target # 0
    /\ file' = [file EXCEPT ![day] =
                  [issues |-> found, parses |-> TRUE, whole |-> TRUE]]
    /\ sync' = "idle" /\ found' = {} /\ target' = 0
    /\ UNCHANGED <<issueVars, day, up, last, diffVars, failures>>

\* Mutant of WriteRest: a short write is taken for success.
WriteRestOrLess ==
    /\ target # 0
    /\ file' \in {file, [file EXCEPT ![target] =
                             [issues |-> found, parses |-> TRUE, whole |-> TRUE]]}
    /\ sync' = "idle" /\ found' = {} /\ target' = 0
    /\ UNCHANGED <<issueVars, day, up, last, diffVars, failures>>

WriteRest ==
    /\ target # 0
    /\ file' = [file EXCEPT ![target] =
                  [issues |-> found, parses |-> TRUE, whole |-> TRUE]]
    /\ sync' = "idle" /\ found' = {} /\ target' = 0
    /\ UNCHANGED <<issueVars, day, up, last, diffVars, failures>>

WriteFails ==
    /\ sync = "write" /\ Fault
    /\ SyncFails
    /\ UNCHANGED <<issueVars, day, file, up, diffVars>>

-----------------------------------------------------------------------------
(* The handler of /diff; the front end offers the days that GetSnapshots   *)
(* lists.                                                                  *)

Request(d, e) ==
    /\ up /\ diff = "none"
    /\ file[d] # Absent /\ file[e] # Absent
    /\ dates' = <<d, e>>
    /\ diff' = "old" /\ old' = {} /\ new' = {} /\ exact' = TRUE
    /\ UNCHANGED <<issueVars, day, file, up, syncVars, failures>>

\* The answer, be it a difference or an error.
Answer == diff' = "none" /\ old' = {} /\ new' = {} /\ exact' = TRUE /\ dates' = <<1, 1>>

ReadOld ==
    /\ diff = "old"
    /\ LET f == file[dates[1]]
       IN  IF f.parses
           THEN diff' = "new" /\ old' = f.issues /\ exact' = f.whole /\ UNCHANGED <<dates, new>>
           ELSE Answer
    /\ UNCHANGED <<issueVars, day, file, up, syncVars, failures>>

ReadNew ==
    /\ diff = "new"
    /\ LET f == file[dates[2]]
       IN  IF f.parses
           THEN /\ diff' = "infos" /\ new' = f.issues /\ exact' = (exact /\ f.whole)
                /\ UNCHANGED <<dates, old>>
           ELSE Answer
    /\ UNCHANGED <<issueVars, day, file, up, syncVars, failures>>

Added == new \ old
Removed == old \ new

\* GetIssuesInfo asks Jira for each issue added or removed; any error is the
\* answer.
GetInfos ==
    /\ diff = "infos"
    /\ Answer
    /\ UNCHANGED <<issueVars, day, file, up, syncVars, failures>>

-----------------------------------------------------------------------------
Sync == StartSync \/ FetchPage \/ OpenFile \/ WriteSome \/ WriteRest

JiraNext ==
    \/ \E k \in Issues : Join(k) \/ Leave(k)
    \/ Midnight
    \/ Start \/ Crash
    \/ Sync \/ SearchFails \/ WriteFails
    \/ \E d, e \in Day : d < e /\ Request(d, e)
    \/ ReadOld \/ ReadNew \/ GetInfos

\* The deployment restarts the process; the schedule fires and Jira answers.
Fairness == WF_jiraVars(Start) /\ WF_jiraVars(Sync)

JiraSpec == JiraInit /\ [][JiraNext]_jiraVars
FairJiraSpec == JiraSpec /\ Fairness

-----------------------------------------------------------------------------
(***************************************************************************)
(* A difference of two whole files is honest up to the searches: of the    *)
(* issues that have matched the query all the time, it reports no more as  *)
(* added or removed than issues have left the result.  Each departure may  *)
(* push one issue off the page it would have been on (GetIssues).          *)
(***************************************************************************)
DiffHonest ==
    diff = "infos" /\ exact => Cardinality(stable \cap (Added \cup Removed)) <= left

(***************************************************************************)
(* A snapshot of a past day is damaged for ever only by a fault: a sync    *)
(* that runs into the next day, a second one of the same day or a reader   *)
(* never leaves a part of a file behind (WriteIssues).                     *)
(***************************************************************************)
DamageNeedsFault ==
    Cardinality({ d \in 1..(day - 1) : ~file[d].whole /\ d # target }) <= failures

(***************************************************************************)
(* Today's snapshot is repaired and catches up: once moves and failures    *)
(* stop, it is all of the result whenever it is not being written, also    *)
(* after a crash in the middle of a write.                                 *)
(***************************************************************************)
SnapshotCatchesUp ==
    <>[](target = 0 =>
           file[day] = [issues |-> Range(matches), parses |-> TRUE, whole |-> TRUE])

-----------------------------------------------------------------------------
\* The file holds all of what was to be written.
Whole(f) == f.parses /\ f.whole

\* How many of the stable issues are not in S.
Missed(S) == Cardinality(stable \ S)

\* The stable issues that the search has passed over.
Overlooked == IF sync = "write" THEN stable \ found
              ELSE (stable \cap Behind(matches, last)) \ found

(***************************************************************************)
(* What two searches miss together, be they those of two files, of a file  *)
(* and the one under way, or of what the handler has read, is paid for by  *)
(* departures, as each departure falls into one search.                    *)
(***************************************************************************)
MissedInv ==
    /\ IsInjective(matches)
    /\ sync # "search" => last = 0
    /\ sync = "idle" => found = {}
    /\ Cardinality(Overlooked) <= left
    /\ \A d \in Day : Whole(file[d]) =>
         /\ Missed(file[d].issues) + Cardinality(Overlooked) <= left
         /\ \A e \in Day : d < e /\ Whole(file[e]) =>
              Missed(file[d].issues) + Missed(file[e].issues) <= left

DiffInv ==
    /\ diff \in {"old", "new"} => dates[1] < dates[2]
    /\ diff = "new" /\ exact =>
         /\ Missed(old) + Cardinality(Overlooked) <= left
         /\ \A e \in Day : dates[1] < e /\ Whole(file[e]) =>
              Missed(old) + Missed(file[e].issues) <= left
    /\ diff = "infos" /\ exact => Missed(old) + Missed(new) <= left

\* The files that are damaged, today's included.
Damaged == { d \in Day : ~file[d].whole /\ d # target }

\* The inductive invariant the proofs of PagedSearchProofs use.
JiraInv == JiraTypeOK /\ MissedInv /\ DiffInv /\ Cardinality(Damaged) <= failures
=============================================================================
