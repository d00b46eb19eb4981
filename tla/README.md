# A verification development of bugzilla-tools

`src/` holds a set of small Go services and cron jobs around Bugzilla: they
export bug counts, edit bugs by rules, rebuild images and report to Slack. This
directory models the parts that run for long or concurrently, or that act on
shared data more than once, checks them with TLC and proves the central
properties with TLAPS.

Run one check with `tlc -workers 2 -config MCBugGauge.cfg MCBugGauge.tla`, the
proofs with `tlapm StandaloneProofs.tla`.

## Inventory

| component | state | operations | what is hard | what makes it correct |
|---|---|---|---|---|
| `pkg/teams` | `*orgData`, one struct shared by all goroutines, no lock | `GetOrgData`, `Reconcile`, `GetTeamName` | it is overwritten while lookups range over a Go map; a garbled answer is `nil, nil` | the lookup answers from one version of the data, in any iteration order |
| `pkg/bugs` | the list of bugs under an RWMutex | `GetBugData`, `Reconcile`, `GetTeamMap`, filters | its goroutine ends at the first error | a team map partitions one answer of Bugzilla |
| `pkg/metrics` | the gauge vector, `lastGauges` | `updateGauge` every minute | a scrape may fall between two operations; series must be deleted with their old labels | no double count, no leak, at most one bug missing |
| `cmd/bug-exportor` | the error channel (capacity one) | `doMain`, `/api` | four goroutines and restarts | failures end the process, the gauge converges |
| `cmd/bug-automation` | none of its own, Bugzilla's bugs | eight search-and-update actions, hourly, overlapping | actions feed each other; searches are stale when used; calls fail singly | two runs settle a bug, the bot does not talk to itself |
| `cmd/git-build-watcher` | none, the builds of a build config | poll, compare, start | builds learn their revision late, may fail, are started by others | one waiting build, no needless builds, no commit overlooked |
| `pkg/cache` | a bolt file | `GetCachedBug`, `...Comments`, `...History` | the revision is the caller's, the content is later | nothing older than the caller knows |
| `cmd/team-exportor`, GitHub, file and sheet readers of `pkg/teams`, `pkg/config` | organisation data behind an unguarded pointer, file watchers | read and merge every five minutes, `/teams`, exit when a file changes | the sources are read one after the other while they change; the data are encoded while they are overwritten; a watcher starts later than its file is read | the override prevails, mixtures are of one kind and do not last, clients do not go back in time, no change is overlooked |
| `pkg/slo`, `cmd/team-slo-results` | the results of all teams, behind an unguarded pointer | `getTeamSLOResults` every ten minutes, `/teams` | one result reads the bugs three times and four fields of the organisation data, while both are replaced; the scoring goroutine ends at an error | counts are explained by what the pass saw, undisturbed verdicts are exact, `/teams` keeps answering and catches up |
| `OrgData.CurrentVersion` of `pkg/teams` | two slices | list, sort | one slice is sorted by keys in the other | the lowest active version is returned |
| `cmd/blocker-slack`, `pkg/blockerslack`, `pkg/slack` | a controller with a work queue, Slack | `sync` on a schedule: fetch, message people, teams, debug channel | queries are retried, deliveries and rate limits fail singly, restarts lose the queue; messages have a limit | nobody is messaged twice for one firing, everyone who is due is messaged, debug mode stays private, no line is lost |
| `pkg/jira`, `cmd/jira-daily-diff` | a file for each day | paged search, snapshot every minute, `/diff` of two days | pages shift while they are fetched; files are written in place, read meanwhile and cut off by crashes; a sync runs into the next day | a difference invents no more than issues moved; only faults damage a snapshot, and today's is repaired |
| `cmd/feature-slo-automation`, `slo.GetTeamsResults` | none, GitHub's pull requests | one pass: two services, paged search, verdicts | a garbled answer is `nil, nil`; results may not mention a team; pages shift | each verdict is one the data justify; the search misses and doubles no more than moved |
| `cmd/smartsheets`, `cmd/redirect`, `cmd/bugs-*`, `cmd/upcoming-sprint-stats`, `pkg/utils`, `pkg/version`, `pkg/eventlogger`, web front ends | none | one-shot or stateless | nothing | not modelled: input and output only |

How they interact: `bug-exportor` asks `team-exportor` over HTTP for the
organisation data and Bugzilla for the bugs; `pkg/bugs` calls the lookup of
`pkg/teams` for each bug; `pkg/metrics` and `/api` call `GetTeamMap`.
`team-exportor` makes that data with the readers of `pkg/teams` and `pkg/config`.
`team-slo-results` uses the same packages and scores with `pkg/slo`, and
`feature-slo-automation` reads its results and the organisation data. `blocker-slack` calls the
`Reconcile` of both packages itself, once for each report, and sends with
`pkg/slack`.
The complete list of hazards, each at its line, is in `PROJECT.json`.

## Modules

| module | models | correspondence |
|---|---|---|
| `OrgData` | `isForTeam` and what a lookup promises (pure) | `Answers(org, c, s)` is the set of teams `GetTeamName` may return |
| `TeamLookup` | one call of `GetTeamName`, an iteration per step, beside the reconciler | `Call` copies `*orgData` (value receiver), `VisitOwner`/`VisitOther` are iterations in map order, `Reconcile` overwrites the shared data |
| `BugGauge` | `updateGauge`, one operation of the gauge vector per step | `lastGauges` and `nextGauges` are the maps, `series` what a scrape sees, `lit` the series with the value 1 |
| `BugExportor` | the process and its goroutines, Bugzilla, the organisation service and restarts | composes `OrgData!Answers` and an instance of `BugGauge`; `phase` is the place of `doMain`, `bugRec`/`http` those of the senders to `errs`, `reading`/`snap`/`teamMap`/`unplaced` the frame of each `GetTeamMap` |
| `BugRules` | the queries and updates of `generate/main.go` (pure) | a bug is a record of the fields the queries tell apart; `UndisturbedRun` is a run of all actions on one bug |
| `BugAutomation` | the jobs that run them on Bugzilla's bugs, with edits and failures | `current`, a position in the list of actions, and `found` are the two loops of `doBug` |
| `GitBuildWatcher` | the watcher, the build config's builds, the repository | `GetCommitish`, `ListBuilds`, `Instantiate` are its three calls, `watcher` the one that is next |
| `BugCache` | the cached client and its bolt buckets | a call is get, fetch, set |
| `SLOResults` | `pkg/slo` (pure) | `GetTeamResult` with the counters and obligations it calls; the count of an objective, a float32, in halves |
| `TeamSLO` | the process `team-slo-results`, its reconcilers and restarts | `phase`, `bugRec`, `http`, `errs` as in `BugExportor`; `calc` is the place of the scoring goroutine, `copying` the fields of `*orgData` still to overwrite, `served` is `*serveResults` |
| `CurrentVersion` | the function of that name with the insertion sort of `sort.Slice` | `active` and `order` are its slices, `i` and `j` the indices of the sort |
| `SlackReport` | the process `blocker-slack`: schedule, work queue, `sync`, Slack | `dirty` and `delayed` are the queue and its rate limiter, `pc` the place of `sync`, `todo` the rest of the map ranged over, `at` and `unsent` the team and the rest of the slice that the inner loop ranges over |
| `JoinMessages` | `joinMessages` (pure) | a line is its length, a message the sequence of its lines; `AddLine` and `NextMessage` are the branches of its loop |
| `TeamReports` | the reports of `SlackReport` as `JoinMessages` makes them | `JoinedReports` is what `getTeamMessages` can return |
| `TeamExportor` | the process `team-exportor`: its fetching goroutine with all readers, the watchers of `pkg/config`, the handler of `/teams`, restarts, and the sources | `draft` is what `getOrgDataFromGithub` has read, one file per step in the order `Reads`; `shared` is `*orgData` by field, `copying` what is still to overwrite, `spawned` and `watching` the goroutines of `restartOnConfigChange`; `OrgDataFrom` is the merge |
| `SearchPages` | a search that is answered in pages (pure) | `Page` is an answer; matches join and leave in between; `Behind` and `Ahead` are the matches before and after a place |
| `JiraSnapshots` | the process `jira-daily-diff`: its controller, its files, the handler of `/diff`, crashes | `last` and `found` are the loop of `GetIssues`; `target` is the file that `ioutil.WriteFile` has open, `diff`, `old` and `new` the place and the reads of `getSnapshotDiff` |
| `FeatureSLO` | the job `feature-slo-automation`, GitHub and its two services | `pc` is the place in `doBug`, `listed` is `allIssues`, the counts are its three maps |
| `MC*` | the constants TLC checks them with | |
| `TeamsProofs`, `BugExportorProofs`, `StandaloneProofs`, `BugAutomationProofs`, `SlackReportProofs`, `TeamExportorProofs`, `PagedSearchProofs`, `TeamSLOProofs` | theorems | |

`StandaloneProofs` is about three components that have nothing to do with each
other (`BugGauge`, `BugCache`, `GitBuildWatcher`), `PagedSearchProofs` about the two
that search by pages. As a module with proofs extends the modules it is about, the
latter have names apart: `CacheSpec`, `WatchNext`, `JiraInit`, `moves` and so on.

Two layers are tied by refinement: `BugExportor` says with `RefinesGauge ==
Gauge!Spec` that it drives the gauge as the abstract `BugGauge` demands, which
lets any map with every bug once come next. TLC checks it and `Refinement` proves
it, so what is proved of `BugGauge` for any names of teams holds of the gauge of the
process, with the teams and "unknown" as names. `OrgData!Answers` is the specification
that `TeamLookup` is proved to meet, and `BugExportor` uses it in place of the
loop; `TeamSLO` does so too, and states its own verdicts a second time, from bugs
and objectives (`OverLimit`), against what `SLOResults` computes with maps.

`JiraSnapshots` and `FeatureSLO` share `SearchPages`: the two loops over pages of
the repository, one by offset and one by page number, are checked against the
same moving list. `FeatureSLO` uses `OrgData!Answers`, which `TeamLookup` is
proved to meet, for its lookup, and `TeamExportor` uses it to say what merged
data must answer.

Operators named "Mutant of X" in a module are not part of the model: each is X
with a bug such code could have, which the property named in `PROJECT.json`
finds.

### Abstractions

- Lists that are only searched are sets. The labels of a bug other than its
  team are one opaque `detail`; ids are model values.
- `OrgReconcile` fetches and overwrites in one step: the service is seen by
  that step alone, so nothing can tell the two apart. `Search` and `SetBugs` are
  two steps, as the process may end in between.
- In Go, overwriting a struct of several words while it is copied is a data
  race. The lookup uses the field `Teams` alone, a single word, so it sees one
  version or the other. `TeamSLO` uses three fields, so there the fields are
  copied one by one, in any order (`CopyField`); a torn map pointer is not modelled. The
  results that `/teams` of `team-slo-results` serves are one word too, a map that nobody writes to once it is published, so
  a handler sees one pass whole and needs no step of its own.
- The vector of the gauge is guarded by its own lock: a scrape sees the state
  between two operations. `With` and `Set` are separate steps.
- A handler that meets a nil `*orgData` panics, which net/http recovers; the org
  reconciler's goroutine panics at once and ends the process (`NilOrgPanic`).
- The bugs of the rules keep the status, the component class, the class of
  target release and so on as `BugRules` lists them; an update writes its fields
  whatever the bug is by then (`Apply`).
- Builds run one after the other, each takes its revision when it fetches its
  source; ties between creation times are ignored.
- Revisions in the cache are numbered; two changes within a second, which
  Bugzilla's time stamps do not tell apart, are not modelled. A bolt transaction
  is atomic. No program of the repository calls `GetCachedBugHistory`; it is
  modelled with the comments, as their code is the same. A bucket that cannot be
  written and a database that was never opened are both `StoreFails`.
- `getCIResult` has no data, as `GetCiComponentMap` returns an empty map at this
  commit: its result is always zero.
- `TeamSLO` keeps a search and its `set` in one step, as nothing else of that
  process can tell them apart; `BugExportor` has them apart.
- A version is a number, its sort key; all keys have the same length as
  long as major and minor versions have at most one and two digits. `sort.Slice` of Go 1.15
  sorts up to six elements by insertion, which is the number of releases assumed.
- The texts of `SlackReport` are opaque; `TeamReports` gives those for teams as
  lines. `posts` counts syncs and not messages, as a long report has several. The
  limit is on the lines without the newlines between them, as in the code: a text may exceed 4000 characters by a few. The summary names every team it tried to reach,
  those whose delivery failed included. `triageBug` passes over bugs whose whiteboard says
  "LifecycleStale", but the query (`pkg/bugs/bugs.go:359`) does not ask for
  the whiteboard, so no bug is stale there. A message that Slack has posted although its answer
  is lost counts as failed (`client.go:59-72`) and is not repeated; only rate limits are, so
  `SlackReport` has no such outcome.
- `TeamExportor` keeps organisation data as the versions of the files they were
  made from, as nothing else distinguishes two fetches; `OrgDataFrom` merges the
  files themselves where a property is about them. The merge is that of the
  vendored mergo: an empty list does not overwrite, a nil one does, and a nil map takes the
  other as it is. The content of a sheet row that is no number
  is a team without a size. Of the flags, those for local files vary; the data come
  from GitHub or a file, as `team-exportor` runs with `--data-from-github`. Two
  watchers that know the same content of a file are one: the code starts new ones at each
  fetch and nothing bounds their number, which the model does not show.
- A watched file that changes and changes back within a second is not
  modelled: versions only grow. The key for GitHub is watched, not versioned in the data.
- `JiraSnapshots`: issues are numbered in the order of their keys. The beginning of a
  file is empty, parses with some of its issues, or does not parse. `/diff` is asked for
  two days that `/snapshots` lists, the earlier first; a name that is no such day gives an error
  and changes nothing. The two files are read at two moments (`ReadOld`, `ReadNew`).
  `OpenFile` takes the day and truncates the file in one step: the marshalling in between
  (`disk.go:30-46`) touches nothing that anyone else sees, and it does not matter whether the
  day changes before or after it. A file that breaks off within its last
  entry is one that parses without that issue or does not parse; neither is whole.
- `FeatureSLO`: what an OWNERS file says is part of the pull request, as it is read once
  for each. Failures of any call end the job alike (`CallFails`); a nil pointer that is
  used ends it with a panic (`Panic`). Results without teams, which `team-slo-results`
  gives before its first scoring pass, deny nothing. Nor does a team that the results do
  not mention: its pull requests pass, as in the code, and no property says they should not.
- Left out of the search of `FeatureSLO`: the cache on disk behind its client
  (`main.go:78-84`), so no page is older than the request; GitHub's flag for
  incomplete results and its limit of 1000; and changes in the order of the matches.

## Runs

| run | instance | shows |
|---|---|---|
| `team_lookup` | 3 teams, 1 component, 2 subcomponents, every mix of claims | the answer is one the data promise, in all iteration orders and under replacement (the only one when claims do not overlap: `LookupDetermined`). 3 teams give an owner, a default and a bystander; components do not interact |
| `bug_gauge` | 3 bugs, 2 teams, any sequence of maps, symmetric in bugs and teams | no double count, no leak, a scrape misses one bug at most. 3 bugs are one taken, one at hand, one left |
| `bug_exportor` | 2 bugs, 2 teams, one handler and the metrics goroutine, 1 change, 1 fault | maps are partitions by data in force; nothing is published before an answer or from a nil organisation; the gauge is driven as `BugGauge` says; the service recovers and the gauge converges. The change can fall between the lookups of the two bugs of a map, and a fault before or after it |
| `bug_automation` | 2 overlapping jobs with the default actions, 2 bugs of which the bot may not update one, an edit and a fault at any step | two undisturbed runs leave nothing to do; at most two comments of each job on a bug (a bound that is reached); a bug that cannot be updated does not keep the other from coming to rest |
| `git_build_watcher` | 3 commits, 2 failures, 1 manual build | builds do not pile up or repeat, the head is tried |
| `bug_cache` | 1 bug, 2 kinds, 2 callers, 3 revisions, damaged entries, fetches and stores that fail | nothing older than the caller knows; only an error of Bugzilla leaves a call without an answer. Three revisions are the caller's, the bucket's and the bug's |
| `team_slo` | 2 teams, 2 components, 2 bugs, data with two, one or no team and with no release, 1 change, 1 fault | each count lies between the bugs that all versions seen give the team and no other, and those that some version seen may give it; verdicts are exact if nothing changed and no two teams claim the same; the answer is never wiped; errors of every goroutine restart the process, and the verdicts catch up. A change can fall between any two of the three bug maps, the four uses of the organisation data and the fields of its replacement |
| `team_exportor` | 3 teams, 1 component with 1 subcomponent, 5 files of 3 versions each, with either local file set, 2 changes, 1 fault | a team whose components or subcomponents the override sets, or that it ignores, answers accordingly; subcomponents are never older than the teams they are merged into; clients never go back; a changed file ends the process; with calm sources the newest data are served. Two changes are any two commits or edits around one read; the override and the commits move components and subcomponents between teams |
| `jira_daily_diff` | 3 issues on pages of 1, 2 days, 2 moves, 2 failures | at most one stable issue is reported as added or removed for each that left; a past day is damaged only by a fault; today's file is right in the end. Three pages have a first, a middle and a last one; two faults are a crash and a failing repair |
| `feature_slo` | 4 pull requests in 3 repositories on pages of 2, 2 teams that share or split components, results with two, one or no team, either service garbled, 2 moves, 1 fault | each count is explained by the pull requests decided; denied only if a team it may belong to fails, and surely if all do; nothing judged from a nil answer; at most one missed for each that was closed and one doubled for each opened |
| `current_version_lowest` | 6 releases, 4 of them listed, any subset of them in any order | **violated**: it is not always the lowest one that is returned |
| `slack_report` | 3 people, one muted, 3 teams, 2 firings, 2 faults, with and without debug mode; reports of a header of 100 and 5 lines of 780 or 4100 characters | no second sync messages anybody for one firing, no delivery lost to another's failure, nothing to people or teams in debug mode, every report made; no line lost, doubled or moved, no empty message, no needless cut. Two faults are any pair of a retry, a rate limit, a failing delivery and a restart; the lengths add up to values below, exactly at and above the limit, and each report has two to six messages |

Bounds: `MaxChanges`, `MaxFaults`, `MaxEdits`, `MaxCommits`, `MaxFailures`,
`MaxManual`, `MaxMoves`, `MaxRevision`, `MaxTicks`, `MaxDays` limit what the environment does and
nothing the program does. In `JiraInit` at most one issue is outside the result at the start;
  `MaxMoves` covers the rest. `MaxComments` caps a history variable above what it
reaches. Symmetry is used in runs without liveness only. Deadlock is checked
except where the program ends (`CurrentVersion`, `FeatureSLO`) or waits for an environment
whose bound is used up (`SlackReport`).

Fairness: a goroutine, or a job, that can take a step takes one (weak fairness of
the disjunction of its steps), sleeps end, the deployment restarts an ended
process, cron jobs come again, builds proceed, watchers poll, and the worker and the rate limiter
of the work queue go on. Changes, edits, requests, failures and signals are never
forced, and "once they stop" is what their bounds mean.

## Where the code and its words differ

- `README.md:22` says that a build runs "when github has changed since the last
  successful build"; the watcher compares with the last build, successful or not:
  one of the head that failed after it fetched its source is not repeated
  (`NeedsBuild`; what it does promise is `HeadIsTried`).
- `pkg/metrics/metrics.go:63` wants to hold back the gauge until Bugzilla has
  answered. Its test is never true, as a team map always has the key "unknown";
  what it asks for holds all the same, by the order of `doMain`
  (`PublishOnlyAnswers`).
- `pkg/teams/teams.go:437` says that `CurrentVersion` returns the lowest version;
  its `sort.Slice` at line 468 moves `active` but compares `order`
  (`current_version_lowest`). It is right for up to two releases
  (`LowestOfTwo`). The result has no effect now, as `GetCiComponentMap` ignores it.
- `cmd/blocker-slack/main.go:56`: the debug mode is to send "all messages to the
  debug channel"; `sync` leaves the personal ones out
  (`MessagePerson` sends nothing in debug mode).

## Proofs

All theorems hold for every value of the constants. They rest on the named ASSUMEs
of the modules, which TLC evaluates in the runs: nil values differ from proper ones,
the organisation data and bugs that services hand out have the types of the code,
a search answers with finitely many bugs, and bounds are natural numbers. `IInv` is
in each module the inductive invariant of its proofs. All safety properties of the
passing runs are proved.

- `TeamsProofs`: the loop invariant `LoopInv` (no owner among the visited
  teams; the default found is one of them) is inductive with the types, beside
  any `Reconcile`, because the call works on its copy. It gives
  `LookupSound` and, by `UniqueAnswer`, `LookupDetermined`. Of `CurrentVersion`,
  `SortInv` says that the element being inserted has passed only larger keys, that
  what lies behind it has not moved, and that the front holds the end of the
  descending run of keys (`Leads`). It gives `EndOfDescent`, and from it `LowestOfTwo`.
- `StandaloneProofs`, the gauge: `OneSeriesPerBug` is not inductive, as it does not
  say what the maps hold. `PassInv` says, phase by phase, that the series are the new
  labels of the bugs taken (`Taken`) and the old labels of the others (`Left`).
  Each step preserves it (`BeginBugKeepsPassInv`, `StartExpireKeepsPassInv`);
  `MixedLabels` says that such a mixture has one series per bug. It gives
  `NoDoubleCount`, `NoLeakedSeries` and `ScrapeNearlyComplete`.
- `StandaloneProofs`, the cache: `BucketsFresh` needs to know what the fetched answers
  are worth; the inductive invariant says that an answer under way is at least as new as
  the revision asked for and as old as the bug. It gives `CacheNeverOlder`,
  `CacheFresh` and `CallsAreAnswered`.
- `StandaloneProofs`, the watcher: builds fetch their source in the order of their
  creation (`QueueInv`), so the latest build pays for all: with a revision, there are no
  more builds than commits up to it and incidents; if it failed before that, there is room
  for the one its failure calls for (`LatestInv`). The list the watcher decided on may be old, but only incidents can have
  come between (`PollInv`). It gives `BuildsDoNotPileUp` and `NoBuildWithoutReason`.
- `BugExportorProofs`: `MapInv` says that the placed bugs of a map under construction and
  those still to place are the snapshot, and that for each placed one some organisation
  data in force answered so; `StartInv` that nobody reads before `doMain` has the first
  answer. It gives `MapsAreFaithful`, `NothingUnanswered` and `TypeCorrect`. `Refinement`
  goes step by step: a finished map has each bug in one team (`LabelsOfMap`), so starting a
  pass is a `StartPass` of the gauge, the end of the process is its `Reset`, and all else
  leaves it alone (`StepRefines`).
- `BugAutomationProofs`: `RulesHaveNoCycle`, that two undisturbed runs of all eight actions
  leave nothing to do, for each of the 51840 bugs that the fields allow. An action is
  done once it has run (`RunOnOnce`); after the first run none has reason to unset a
  target release (`TargetStillStands`), and then none makes work for another
  (`NoNewWork`). `TwoRunsAreEnough` is the same of overlapping jobs that run any selection
  of the actions in their order, with edits and failures: `Achieved` says how much of a run
  has taken effect on a bug nobody disturbed, `Settled` what full runs are worth.
  For `TwoCommentsAtMost` a potential falls with each comment: a bug gives at most two
  reasons to comment (`Reasons`), each goes with the update (`ReasonsGo`), and a comment
  about to be made counts as one (`Due`).
- `SlackReportProofs`: `AtMostOncePerTick` is not inductive; `TicksInv` counts, for each
  recipient, the firings of the schedule that wait in the queue, with the rate
  limiter or in the sync at hand beside the syncs that posted. It gives `NoSpam`.
  `LoopInv` holds that the messages tried and those to try are one report together:
  `ReportsInFull`. `ReachInv` says that those reached, those failed and those that the
  loops still visit are everyone due; it gives `EveryoneIsReported`. `DebugIsPrivate`
  follows from the branches of the deliveries. `MessagesHoldReport` is by induction over
  the lines: `Joined` says what the loop has made of the first n, and each line keeps it,
  be it added (`AddLineJoins`) or the start of the next message (`NextMessageJoins`). With
  `ReportsInFull` it gives `NothingIsLost`. The library's induction theorems take an
  operator, which the provers cannot instantiate; `Induction` is of a set of numbers, and
  rests on the least element of a well-founded relation (`LeastNumber`), as does what the
  recursive functions `Loop`, `Lengths` and `Beginnings` are (`LoopDef`, ...).
- `TeamExportorProofs`: the versions of a file that clients got, that the answer under way
  has, that are shared, that the draft has and that the source has lie in this order
  (`ChainInv`, `DraftInv`), field by field, while fields are copied and encoded one at a
  time. It gives `OneKindOfMixture` and `TimeGoesOn`. `OverrideDecides` needs only the
  operators: what the merge writes last stays, components and subcomponents (`MergeOverwrites`,
  `SizesKeepComponents`).
- `PagedSearchProofs`: the loops of the two programs cut pages out of a list that moves.
  A match that joins pushes at most one on to the next page (`MatchJoins`), one that
  leaves pulls at most one back behind the place of the search (`MatchLeaves`), and a page
  moves its matches from ahead to behind (`PageMoves`). So misses are paid for by departures
  and doubles by arrivals: `PullsAreListed`. Of `JiraSnapshots`, any two searches share one
  budget of departures, be they on file, under way or read by the handler (`MissedInv`,
  `DiffInv`), which gives `DifferencesAreHonest`; each failure damages at most one file
  (`FaultsDamage`). `CountsAreVerdicts` counts the places of the list by what `Judge` did
  with them.
- `TeamSLOProofs`: the maps and results of a pass are explained by what it has seen. `PassInv`
  says that the versions in force are always among those seen; `MapInv` that each map
  has the bugs of one list seen, but for those still to place, each with an answer of some
  organisation data seen; `ResultInv` that the results are those of the maps. It gives
  `CountsAreBounded` and, when one version was seen, `ExactVerdicts`: the three maps
  are then the claims of each team (`OneVersion`), and the obligation computed from merged
  and scaled objectives is the allowance (`ObligationIsAllowance`). `StillAnswers`
  needs no invariant.

Only model-checked:

- All liveness properties (`GaugeConverges`, `AllComeToRest`, `HeadIsTried`,
  `ResultsConverge`, `TickIsReported`, `ChangeIsNoticed`, `ServesCurrent`,
  `SnapshotCatchesUp`), which rest on fairness and ENABLED.
- That `ReturnsLowest` fails: a theorem would need releases that make it fail; the run shows some.

## Not modelled

- `cmd/smartsheets`, `cmd/redirect`, `cmd/bugs-per-team`, `cmd/bugs-to-list`,
  `cmd/bugs-to-teams`, `cmd/upcoming-sprint-stats`: each reads once, with no
  goroutine beside it, and prints or sends what it read; the team map they use is
  that of `BugExportor`. The counts of `pkg/bugs` (`CountAll` and its like) are sums over one team of such a map.
- `pkg/eventlogger`, `pkg/slack/recorder.go`, `pkg/blockerslack/bugutil`, `pkg/utils`,
  `pkg/version` and the web front ends: wording and output.
- The exchange of OAuth tokens with Google (`teams.go:199-252`), which happens once
  by hand, and the reading of API keys.
- The summary, status and labels that `/diff` shows of an issue (`planninglabels.go`).

## Plan

What is left, in this order:

1. A lookup in one step as an abstract specification, which `TeamLookup` implements with a
   refinement mapping; `Answers` states what it returns, not yet that it does nothing else.
2. Proofs shared: the lemmas about lists without doubles of `PagedSearchProofs` and about
   finite sets of `StandaloneProofs` and `TeamSLOProofs` have parts in common.
