---------------------------- MODULE TeamExportor ----------------------------
(***************************************************************************)
(* cmd/team-exportor with the readers of pkg/teams and pkg/config: a       *)
(* goroutine that reads the organisation data from GitHub, from files and  *)
(* from a sheet every five minutes, watchers that end the process when a   *)
(* file that was read changes, and the handler of /teams, which encodes    *)
(* the shared data while they are overwritten.                             *)
(*                                                                         *)
(* What a source holds depends on its version alone, so organisation data  *)
(* are kept as the versions they were made from; OrgDataFrom gives the     *)
(* data themselves.  A field of *orgData has versions of its own, as the   *)
(* fields are overwritten one by one.  A version 0 means "not read".       *)
(***************************************************************************)
EXTENDS OrgData, Naturals, Sequences, Functions

CONSTANTS
    IgnoreTag,   \* "!!IGNORE!!", the only component of a team to leave out
    History,     \* for each file, the sequence of what it holds over time
    FlagSets,    \* which of the flags for local files can be set
    MaxChanges,  \* bound: changes of the sources
    MaxFaults    \* bound: calls that fail and signals

Source == {"github", "key", "test", "override", "sheet"}
GithubFile == {"shiftzilla", "subcomponents"}
File == GithubFile \cup {"test", "override", "sheet"}
Field == {"teams", "releases"}

\* Both files of the repository change with a commit.
SourceOf(f) == IF f \in GithubFile THEN "github" ELSE f

\* The file whose reading starts a watcher, if any.
WatchedWith(f) ==
    IF f \in GithubFile THEN {"key"} ELSE {f} \cap {"test", "override"}

ASSUME FlagsAssumption == FlagSets \subseteq SUBSET {"test", "override"}
ASSUME BoundAssumption == MaxChanges \in Nat /\ MaxFaults \in Nat

\* What a file says of a team: a TeamInfo with the size of the team.  A list
\* and the map of lists may be there and empty, or nil ("null"), which the
\* lookup does not tell apart, but a merge does.
FileTeam ==
    [ components    : SUBSET Component,
      subcomponents : UNION { [D -> SUBSET (Subcomponent \cup {DefaultTag})] :
                              D \in SUBSET Component },
      nilLists      : SUBSET Component,  \* the components whose list is nil
      nilMap        : BOOLEAN,           \* the map is nil
      memberCount   : Nat ]

\* The files with teams parse to teams, in each version they have.
ASSUME HistoryAssumption ==
    /\ DOMAIN History = File
    /\ \A f \in File : DOMAIN History[f] = 1..(MaxChanges + 1)
    /\ \A f \in File \ {"sheet"} : \A v \in 1..(MaxChanges + 1) :
         /\ DOMAIN History[f][v] \subseteq Team
         /\ \A t \in DOMAIN History[f][v] :
              LET info == History[f][v][t]
              IN  /\ info \in FileTeam
                  /\ \A c \in info.nilLists :
                       c \in DOMAIN info.subcomponents /\ info.subcomponents[c] = {}
                  /\ info.nilMap => DOMAIN info.subcomponents = {}

\* The versions that organisation data were made from.
Versions == [File -> 0..(MaxChanges + 1)]
NotRead == [f \in File |-> 0]

-----------------------------------------------------------------------------
(* From what the sources hold to organisation data. *)

\* The keys of the second map that win: an empty list does not overwrite, but
\* a nil one does; and a nil map is replaced by the second as it is.
Overwriting(old, new) ==
    { c \in DOMAIN new.subcomponents :
        new.subcomponents[c] # {} \/ c \in new.nilLists \/ old.nilMap }

\* mergo's deepMerge of two TeamInfo: what the second has wins unless it is
\* empty, a list as a whole, the map key by key.
MergeTeam(old, new) ==
    [ components    |-> IF new.components = {} THEN old.components ELSE new.components,
      subcomponents |->
          [ c \in DOMAIN old.subcomponents \cup Overwriting(old, new) |->
              IF c \in Overwriting(old, new) THEN new.subcomponents[c]
                                             ELSE old.subcomponents[c] ],
      nilLists      |-> (old.nilLists \ Overwriting(old, new))
                          \cup (new.nilLists \cap Overwriting(old, new)),
      nilMap        |-> old.nilMap /\ new.nilMap,
      memberCount   |-> IF new.memberCount = 0 THEN old.memberCount ELSE new.memberCount ]

\* Mutant of MergeWithOverwrite: lists are appended to, not replaced.
MergeAppending(old, new) ==
    [ t \in DOMAIN old \cup DOMAIN new |->
        IF t \in DOMAIN old \cap DOMAIN new
        THEN [MergeTeam(old[t], new[t]) EXCEPT
                !.components = old[t].components \cup new[t].components]
        ELSE IF t \in DOMAIN new THEN new[t] ELSE old[t] ]

MergeWithOverwrite(old, new) ==
    [ t \in DOMAIN old \cup DOMAIN new |->
        IF t \in DOMAIN old \cap DOMAIN new THEN MergeTeam(old[t], new[t])
        ELSE IF t \in DOMAIN new THEN new[t] ELSE old[t] ]

\* The sheet has the size of each team; it makes no team.
WithTeamSizes(org, sizes) ==
    [ t \in DOMAIN org |-> IF t \in DOMAIN sizes
                           THEN [org[t] EXCEPT !.memberCount = sizes[t]]
                           ELSE org[t] ]

WithoutIgnored(org) ==
    Restrict(org, { t \in DOMAIN org : org[t].components # {IgnoreTag} })

OrgDataFrom(versions) ==
    LET Data(f) == History[f][versions[f]]
        base    == IF versions["test"] # 0 THEN Data("test")
                   ELSE MergeWithOverwrite(Data("shiftzilla"), Data("subcomponents"))
        merged  == IF versions["override"] # 0
                   THEN MergeWithOverwrite(base, Data("override"))
                   ELSE base
    IN  WithoutIgnored(WithTeamSizes(merged, Data("sheet")))

-----------------------------------------------------------------------------
VARIABLES
    version,   \* of each source
    flags,     \* the flags that are set
    phase,     \* the process: "down", "starting" or "serving"
    fetching,  \* the goroutine that fetches: "read", "publish" or "sleep"
    draft,     \* what getOrgDataFromGithub has read
    shared,    \* *orgData
    copying,   \* the fields of *orgData still to overwrite
    spawned,   \* the watchers that were started and have not run yet
    watching,  \* the watchers at work, each with the content it knows
    loaded,    \* history: the files this process has read, with their versions
    encoding,  \* the handler: the fields still to encode, <<>> when done
    reply,     \* what the handler has encoded
    answered,  \* the last answer a client got
    changes, faults

fetchVars == <<fetching, draft>>
orgVars   == <<shared, copying>>
watchVars == <<spawned, watching, loaded>>
httpVars  == <<encoding, reply>>
vars == <<version, flags, phase, fetchVars, orgVars, watchVars, httpVars, answered,
          changes, faults>>

\* A watcher of a file, with the content it was started with.
Watcher == {"key", "test", "override"} \X (1..(MaxChanges + 1))

TypeOK ==
    /\ version \in [Source -> 1..(MaxChanges + 1)]
    /\ flags \in FlagSets
    /\ phase \in {"down", "starting", "serving"}
    /\ fetching \in {"read", "publish", "sleep"}
    /\ draft \in Versions
    /\ shared \in [Field -> Versions]
    /\ copying \subseteq Field
    /\ spawned \subseteq loaded /\ watching \subseteq loaded
    /\ loaded \subseteq Watcher
    /\ encoding \in {<<>>, <<"releases">>, <<"teams", "releases">>}
    /\ reply \in [Field -> Versions]
    /\ answered \in [Field -> Versions]
    /\ changes \in 0..MaxChanges /\ faults \in 0..MaxFaults

Init ==
    /\ version = [s \in Source |-> 1]
    /\ flags \in FlagSets
    /\ phase = "down"
    /\ fetching = "read" /\ draft = NotRead
    /\ shared = [x \in Field |-> NotRead] /\ copying = {}
    /\ spawned = {} /\ watching = {} /\ loaded = {}
    /\ encoding = <<>>
    /\ reply = [x \in Field |-> NotRead] /\ answered = [x \in Field |-> NotRead]
    /\ changes = 0 /\ faults = 0

-----------------------------------------------------------------------------
(* The sources. *)

Change(s) ==
    /\ changes < MaxChanges
    /\ changes' = changes + 1
    /\ version' = [version EXCEPT ![s] = @ + 1]
    /\ UNCHANGED <<flags, phase, fetchVars, orgVars, watchVars, httpVars, answered, faults>>

-----------------------------------------------------------------------------
(* The process.  The deployment starts it again whenever it ends. *)

Start ==
    /\ phase = "down"
    /\ phase' = "starting"
    /\ UNCHANGED <<version, flags, fetchVars, orgVars, watchVars, httpVars, answered,
                   changes, faults>>

Exit ==
    /\ phase' = "down"
    /\ fetching' = "read" /\ draft' = NotRead
    /\ shared' = [x \in Field |-> NotRead] /\ copying' = {}
    /\ spawned' = {} /\ watching' = {} /\ loaded' = {}
    /\ encoding' = <<>> /\ reply' = [x \in Field |-> NotRead]
    /\ UNCHANGED <<version, flags, answered, changes>>

\* A signal, or the server cannot listen: doMain returns.
Stop ==
    /\ phase = "serving" /\ faults < MaxFaults
    /\ faults' = faults + 1
    /\ Exit

-----------------------------------------------------------------------------
(* The goroutine that fetches: main itself at first, then the reconciler. *)

\* Mutant of Reads: the second set of data is read before the first.
ReadsSubcomponentsFirst ==
    (IF "test" \in flags THEN <<"test">> ELSE <<"subcomponents", "shiftzilla">>)
    \o (IF "override" \in flags THEN <<"override">> ELSE <<>>)
    \o <<"sheet">>

\* NotSetError of a flag passes over its file.
Reads ==
    (IF "test" \in flags THEN <<"test">> ELSE <<"shiftzilla", "subcomponents">>)
    \o (IF "override" \in flags THEN <<"override">> ELSE <<>>)
    \o <<"sheet">>

\* The files that are read.
Wanted == Range(Reads)

\* The first file that has not been read is the one to read.
NextRead(f) ==
    /\ phase # "down" /\ fetching = "read"
    /\ \E n \in DOMAIN Reads :
         /\ Reads[n] = f
         /\ \A k \in DOMAIN Reads : draft[Reads[k]] = 0 <=> k >= n

\* Mutant of Read: an answer may come from a cache of earlier ones.
ReadCached(f) ==
    /\ NextRead(f)
    /\ \E v \in 1..version[SourceOf(f)] : draft' = [draft EXCEPT ![f] = v]
    /\ LET started == { <<w, version[w]>> : w \in WatchedWith(f) }
       IN  spawned' = spawned \cup (started \ watching) /\ loaded' = loaded \cup started
    /\ fetching' = IF f = "sheet" THEN "publish" ELSE "read"
    /\ UNCHANGED <<version, flags, phase, orgVars, watching, httpVars, answered,
                   changes, faults>>

\* A file is read, or requested with the key read for the purpose, and a
\* watcher is started with what was read.  Watchers that know the same
\* content are one here.
Read(f) ==
    /\ NextRead(f)
    /\ draft' = [draft EXCEPT ![f] = version[SourceOf(f)]]
    /\ LET started == { <<w, version[w]>> : w \in WatchedWith(f) }
       IN  spawned' = spawned \cup (started \ watching) /\ loaded' = loaded \cup started
    /\ fetching' = IF f = "sheet" THEN "publish" ELSE "read"
    /\ UNCHANGED <<version, flags, phase, orgVars, watching, httpVars, answered,
                   changes, faults>>

\* doMain returns the error; log.Fatalln in the reconciler.
ReadFails ==
    /\ phase # "down" /\ fetching = "read" /\ faults < MaxFaults
    /\ faults' = faults + 1
    /\ Exit

\* doMain gets the data, starts the reconciler and serves.
Serve ==
    /\ phase = "starting" /\ fetching = "publish"
    /\ shared' = [x \in Field |-> draft]
    /\ phase' = "serving"
    /\ fetching' = "read" /\ draft' = NotRead
    /\ UNCHANGED <<version, flags, copying, watchVars, httpVars, answered, changes, faults>>

\* Reconcile: *orgData = *newOrgData, field by field.
StartOverwrite ==
    /\ phase = "serving" /\ fetching = "publish" /\ copying = {}
    /\ copying' = Field
    /\ UNCHANGED <<version, flags, phase, fetchVars, shared, watchVars, httpVars, answered,
                   changes, faults>>

CopyField(x) ==
    /\ x \in copying
    /\ shared' = [shared EXCEPT ![x] = draft]
    /\ copying' = copying \ {x}
    /\ IF copying = {x} THEN fetching' = "sleep" /\ draft' = NotRead
                        ELSE UNCHANGED fetchVars
    /\ UNCHANGED <<version, flags, phase, watchVars, httpVars, answered, changes, faults>>

\* Mutant of Wake: the reconciler reconciles once.
WakeNever ==
    /\ phase = "serving" /\ fetching = "sleep"
    /\ UNCHANGED vars

\* Five minutes later.
Wake ==
    /\ phase = "serving" /\ fetching = "sleep"
    /\ fetching' = "read"
    /\ UNCHANGED <<version, flags, phase, draft, orgVars, watchVars, httpVars, answered,
                   changes, faults>>

-----------------------------------------------------------------------------
(* The watchers. *)

\* Mutant of StartWatching: the watcher starts from what the file holds now.
StartWatchingAfresh(w) ==
    /\ w \in spawned
    /\ spawned' = spawned \ {w}
    /\ watching' = watching \cup {<<w[1], version[w[1]]>>}
    /\ UNCHANGED <<version, flags, phase, fetchVars, orgVars, loaded, httpVars, answered,
                   changes, faults>>

\* restartOnConfigChange gets to run: the observer starts from what was read.
StartWatching(w) ==
    /\ w \in spawned
    /\ spawned' = spawned \ {w}
    /\ watching' = watching \cup {w}
    /\ UNCHANGED <<version, flags, phase, fetchVars, orgVars, loaded, httpVars, answered,
                   changes, faults>>

\* The observer polls each second; os.Exit(0) when the file has changed.
NoticeChange ==
    /\ \E w \in watching : w[2] # version[w[1]]
    /\ Exit
    /\ UNCHANGED faults

-----------------------------------------------------------------------------
(* The handler of /teams: the fields are encoded in their order. *)

Request ==
    /\ phase = "serving" /\ encoding = <<>>
    /\ encoding' = <<"teams", "releases">>
    /\ UNCHANGED <<version, flags, phase, fetchVars, orgVars, watchVars, reply, answered,
                   changes, faults>>

Encode ==
    /\ encoding # <<>>
    /\ encoding' = Tail(encoding)
    /\ LET encoded == [reply EXCEPT ![Head(encoding)] = shared[Head(encoding)]]
       IN  IF Len(encoding) = 1
           THEN answered' = encoded /\ reply' = [x \in Field |-> NotRead]
           ELSE reply' = encoded /\ UNCHANGED answered
    /\ UNCHANGED <<version, flags, phase, fetchVars, orgVars, watchVars, changes, faults>>

-----------------------------------------------------------------------------
Fetch ==
    \/ \E f \in File : Read(f)
    \/ Serve \/ StartOverwrite \/ Wake
    \/ \E x \in Field : CopyField(x)

Watch == \E w \in Watcher : StartWatching(w)

Next ==
    \/ \E s \in Source : Change(s)
    \/ Start \/ Stop
    \/ Fetch \/ ReadFails
    \/ Watch \/ NoticeChange
    \/ Request \/ Encode

\* The deployment restarts the process and each of its goroutines goes on.
Fairness ==
    /\ WF_vars(Start) /\ WF_vars(Fetch)
    /\ WF_vars(Watch) /\ WF_vars(NoticeChange)

Spec == Init /\ [][Next]_vars
FairSpec == Spec /\ Fairness

-----------------------------------------------------------------------------
(***************************************************************************)
(* The override file has the last word: a team that it marks to be ignored *)
(* answers for no bug, whatever GitHub says of it, a team that it gives    *)
(* components answers for no bug of any other, and one that it gives       *)
(* subcomponents of a component for none of the others there, unless it is *)
(* to take what is left, although two merges, the sizes and the deletion   *)
(* come together from sources read at different times.                     *)
(***************************************************************************)
OverridePrevails ==
    shared["teams"]["override"] # 0 =>
        LET org  == OrgDataFrom(shared["teams"])
            over == History["override"][shared["teams"]["override"]]
        IN  \A c \in Component, s \in SubcomponentOrNone :
              \A t \in Answers(org, c, s) \cap DOMAIN over :
                  LET said == over[t].subcomponents
                  IN  /\ \/ over[t].components = {}
                         \/ c \in over[t].components /\ over[t].components # {IgnoreTag}
                      /\ c \in DOMAIN said /\ (said[c] # {} \/ c \in over[t].nilLists) =>
                           s \in said[c] \/ said[c] = {DefaultTag}

(***************************************************************************)
(* A commit between the requests for the two files of the repository makes *)
(* a mixture, but of one kind only: subcomponents never come from an older *)
(* commit than the teams they are merged into, in what is shared and in    *)
(* what clients get.                                                       *)
(***************************************************************************)
Ordered(v) == v["shiftzilla"] <= v["subcomponents"]

MixtureIsOrdered == \A v \in Range(shared) \cup Range(answered) : Ordered(v)

(***************************************************************************)
(* For a client the organisation data do not go back in time: neither an   *)
(* overwrite during its request nor a restart gives it a field from an     *)
(* older version of any source than it has got before.                     *)
(***************************************************************************)
NeverBackwards ==
    [][\A x \in Field, f \in File : answered[x][f] <= answered'[x][f]]_vars

(***************************************************************************)
(* "It will also start watching the file and will exit the program if the  *)
(* file changes" (pkg/config): also if it changes after it was read and    *)
(* before the watcher runs, and however many watchers there are.           *)
(***************************************************************************)
ChangeIsNoticed ==
    (\E w \in loaded : w[2] # version[w[1]]) ~> phase = "down"

(***************************************************************************)
(* Changes arrive: when sources, calls and signals leave the process       *)
(* alone, it comes to serve, for good, data that are made from the newest  *)
(* version of every file, and a mixture does not last.                     *)
(***************************************************************************)
ServesCurrent ==
    <>[](/\ phase = "serving"
         /\ \A x \in Field, f \in Wanted : shared[x][f] = version[SourceOf(f)])

-----------------------------------------------------------------------------
(***************************************************************************)
(* How far the fetching goroutine is: what has been read is a version the  *)
(* source has had, the data to publish are complete and of one kind, and   *)
(* fields are overwritten with such data only.                             *)
(***************************************************************************)
DraftInv ==
    /\ \A s \in Source : version[s] <= changes + 1
    /\ \A f \in File : draft[f] <= version[SourceOf(f)]
    /\ fetching = "publish" =>
         Ordered(draft) /\ \A f \in Wanted : draft[f] # 0
    /\ draft["subcomponents"] # 0 => Ordered(draft)
    /\ \A f \in File \ Wanted : draft[f] = 0
    /\ copying # {} => phase = "serving" /\ fetching = "publish"
    /\ phase # "serving" => encoding = <<>> /\ copying = {}

(***************************************************************************)
(* For each field and file, the versions that clients have got, that the   *)
(* answer under way has, that is shared, and that was read for the next    *)
(* overwrite: each is at most the next one.                                *)
(***************************************************************************)
ChainInv ==
    \A x \in Field :
        /\ Ordered(shared[x]) /\ Ordered(reply[x]) /\ Ordered(answered[x])
        /\ \A f \in File \ Wanted :
             shared[x][f] = 0 /\ reply[x][f] = 0 /\ answered[x][f] = 0
        /\ \A f \in File :
             /\ answered[x][f] <= version[SourceOf(f)]
             /\ shared[x][f] <= version[SourceOf(f)]
             /\ draft[f] # 0 => answered[x][f] <= draft[f] /\ shared[x][f] <= draft[f]
             /\ phase = "serving" => answered[x][f] <= shared[x][f]
             /\ encoding = <<"releases">> /\ x = "teams" =>
                  answered[x][f] <= reply[x][f] /\ reply[x][f] <= shared[x][f]

\* The inductive invariant the proofs of TeamExportorProofs use.
IInv == TypeOK /\ DraftInv /\ ChainInv
=============================================================================
