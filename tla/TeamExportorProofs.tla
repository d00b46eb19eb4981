------------------------- MODULE TeamExportorProofs -------------------------
(***************************************************************************)
(* Which versions of the sources are shared and get to clients, for any    *)
(* contents of the sources, changes, failures and restarts; and what the   *)
(* merge makes of an override.                                             *)
(***************************************************************************)
EXTENDS TeamExportor, TLAPS

(***************************************************************************)
(* Concatenating two lists of files.                                       *)
(***************************************************************************)
LEMMA Concatenation ==
  ASSUME NEW s \in Seq(File), NEW t \in Seq(File)
  PROVE  /\ s \o t \in Seq(File)
         /\ Len(s \o t) = Len(s) + Len(t)
         /\ \A i \in 1..(Len(s) + Len(t)) :
              (s \o t)[i] = IF i <= Len(s) THEN s[i] ELSE t[i - Len(s)]
  OBVIOUS

(***************************************************************************)
(* The list of files to read, position by position.                        *)
(***************************************************************************)
LEMMA ReadsByPosition ==
  LET g == IF "test" \in flags THEN 1 ELSE 2
      o == IF "override" \in flags THEN 1 ELSE 0
  IN  /\ DOMAIN Reads = 1..(g + o + 1)
      /\ Reads[g + o + 1] = "sheet"
      /\ "test" \in flags => Reads[1] = "test"
      /\ "test" \notin flags => Reads[1] = "shiftzilla" /\ Reads[2] = "subcomponents"
      /\ "override" \in flags => Reads[g + 1] = "override"
<1> DEFINE G == IF "test" \in flags THEN <<"test">> ELSE <<"shiftzilla", "subcomponents">>
           O == IF "override" \in flags THEN <<"override">> ELSE <<>>
           S == <<"sheet">>
<1>1. G \in Seq(File) /\ Len(G) = (IF "test" \in flags THEN 1 ELSE 2)
  <2>1. CASE "test" \in flags
    <3>1. G = <<"test">>
      BY <2>1
    <3> QED BY <2>1, <3>1 DEF File
  <2>2. CASE "test" \notin flags
    <3>1. G = <<"shiftzilla", "subcomponents">>
      BY <2>2
    <3> HIDE DEF G
    <3> QED BY <2>2, <3>1 DEF File, GithubFile
  <2> QED BY <2>1, <2>2
<1>2. O \in Seq(File) /\ Len(O) = (IF "override" \in flags THEN 1 ELSE 0)
  <2>1. CASE "override" \in flags
    <3>1. O = <<"override">>
      BY <2>1
    <3> QED BY <2>1, <3>1 DEF File
  <2>2. CASE "override" \notin flags
    <3>1. O = <<>>
      BY <2>2
    <3> HIDE DEF O
    <3> QED BY <2>2, <3>1
  <2> QED BY <2>1, <2>2
<1>3. S \in Seq(File) /\ Len(S) = 1
  BY DEF File
<1>4. Reads = (G \o O) \o S
  BY DEF Reads
<1>5. /\ "test" \in flags => G[1] = "test"
      /\ "test" \notin flags => G[1] = "shiftzilla" /\ G[2] = "subcomponents"
      /\ "override" \in flags => O[1] = "override"
      /\ S[1] = "sheet"
  OBVIOUS
<1> DEFINE GO == G \o O
<1> HIDE DEF G, O, S, GO
<1>6. /\ GO \in Seq(File) /\ Len(GO) = Len(G) + Len(O)
      /\ \A i \in 1..(Len(G) + Len(O)) : GO[i] = IF i <= Len(G) THEN G[i] ELSE O[i - Len(G)]
  BY <1>1, <1>2, Concatenation DEF GO
<1>7. /\ GO \o S \in Seq(File) /\ Len(GO \o S) = Len(GO) + Len(S)
      /\ \A i \in 1..(Len(GO) + Len(S)) :
           (GO \o S)[i] = IF i <= Len(GO) THEN GO[i] ELSE S[i - Len(GO)]
  BY <1>3, <1>6, Concatenation
<1> QED
  BY <1>1, <1>2, <1>3, <1>4, <1>5, <1>6, <1>7 DEF GO

(***************************************************************************)
(* The files of the repository are both read, the teams first, or neither; *)
(* the sheet is the last.                                                  *)
(***************************************************************************)
LEMMA ReadsOrder ==
  /\ Wanted \subseteq File
  /\ \A n \in DOMAIN Reads :
       /\ n \in Nat \ {0}
       /\ Reads[n] = "sheet" => \A k \in DOMAIN Reads : k <= n
       /\ Reads[n] = "shiftzilla" => \A k \in DOMAIN Reads : n <= k
  /\ "shiftzilla" \in Wanted <=> "subcomponents" \in Wanted
<1> DEFINE g == IF "test" \in flags THEN 1 ELSE 2
           o == IF "override" \in flags THEN 1 ELSE 0
<1>1. /\ DOMAIN Reads = 1..(g + o + 1) /\ Reads[g + o + 1] = "sheet"
      /\ "test" \in flags => Reads[1] = "test"
      /\ "test" \notin flags => Reads[1] = "shiftzilla" /\ Reads[2] = "subcomponents"
      /\ "override" \in flags => Reads[g + 1] = "override"
  BY ReadsByPosition
<1>2. Wanted = { Reads[n] : n \in DOMAIN Reads }
  BY DEF Wanted, Range
<1>3. CASE "test" \in flags /\ "override" \in flags
  BY <1>1, <1>2, <1>3 DEF File
<1>4. CASE "test" \in flags /\ "override" \notin flags
  BY <1>1, <1>2, <1>4 DEF File
<1>5. CASE "test" \notin flags /\ "override" \in flags
  BY <1>1, <1>2, <1>5 DEF File, GithubFile
<1>6. CASE "test" \notin flags /\ "override" \notin flags
  BY <1>1, <1>2, <1>6 DEF File, GithubFile
<1> QED
  BY <1>3, <1>4, <1>5, <1>6

(***************************************************************************)
(* When a file is about to be read, those before it have been, and it and  *)
(* those after it have not.                                                *)
(***************************************************************************)
LEMMA NextReadMeans ==
  ASSUME TypeOK, NEW f \in File, NextRead(f)
  PROVE  /\ phase # "down" /\ fetching = "read" /\ f \in Wanted /\ draft[f] = 0
         /\ f = "sheet" => \A h \in Wanted \ {"sheet"} : draft[h] # 0
         /\ f = "shiftzilla" => draft["subcomponents"] = 0
<1>1. PICK n \in DOMAIN Reads :
        Reads[n] = f /\ \A k \in DOMAIN Reads : draft[Reads[k]] = 0 <=> k >= n
  BY DEF NextRead
<1>2. Wanted = { Reads[k] : k \in DOMAIN Reads }
  BY DEF Wanted, Range
<1>3. n \in Nat /\ \A k \in DOMAIN Reads : k \in Nat
  BY ReadsOrder
<1>4. f \in Wanted /\ draft[f] = 0
  BY <1>1, <1>2, <1>3
<1>5. ASSUME f = "sheet", NEW h \in Wanted \ {"sheet"} PROVE draft[h] # 0
  <2>1. PICK k \in DOMAIN Reads : Reads[k] = h
    BY <1>2
  <2>2. k <= n /\ k # n
    BY <1>1, <1>5, <2>1, ReadsOrder
  <2> QED BY <1>1, <1>3, <2>1, <2>2
<1>6. ASSUME f = "shiftzilla" PROVE draft["subcomponents"] = 0
  <2>1. "subcomponents" \in Wanted
    BY <1>4, <1>6, ReadsOrder
  <2>2. PICK k \in DOMAIN Reads : Reads[k] = "subcomponents"
    BY <1>2, <2>1
  <2>3. n <= k
    BY <1>1, <1>6, <2>2, ReadsOrder
  <2> QED BY <1>1, <1>3, <2>2, <2>3
<1> QED
  BY <1>4, <1>5, <1>6 DEF NextRead

(***************************************************************************)
(* The flags of a deployment do not change, and so neither does what is    *)
(* read.                                                                   *)
(***************************************************************************)
LEMMA WantedFixed == ASSUME flags' = flags PROVE Wanted' = Wanted
  BY DEF Wanted, Reads

\* Every file has a source, and data that were not read have the version 0.
LEMMA FileType ==
  /\ \A f \in File : SourceOf(f) \in Source
  /\ SourceOf("shiftzilla") = "github" /\ SourceOf("subcomponents") = "github"
  /\ NotRead \in Versions /\ \A f \in File : NotRead[f] = 0
  /\ [x \in Field |-> NotRead] \in [Field -> Versions]
<1>1. NotRead \in Versions /\ \A f \in File : NotRead[f] = 0
  BY BoundAssumption DEF NotRead, Versions
<1> QED
  BY <1>1 DEF SourceOf, Source, File, GithubFile

\* What the types say of single versions.
LEMMA VersionType ==
  ASSUME TypeOK
  PROVE  /\ \A s \in Source : version[s] \in Nat \ {0}
         /\ changes \in Nat
         /\ \A f \in File : draft[f] \in Nat
         /\ \A x \in Field, f \in File :
              shared[x][f] \in Nat /\ reply[x][f] \in Nat /\ answered[x][f] \in Nat
  BY BoundAssumption DEF TypeOK, Versions

\* A process that has not started has read nothing.
LEMMA InitIInv == Init => IInv
<1> SUFFICES ASSUME Init PROVE IInv
  OBVIOUS
<1>1. TypeOK
  <2>1. version \in [Source -> 1..(MaxChanges + 1)]
    BY BoundAssumption DEF Init
  <2>2. changes \in 0..MaxChanges /\ faults \in 0..MaxFaults
    BY BoundAssumption DEF Init
  <2> QED BY <2>1, <2>2, FileType DEF Init, TypeOK
<1>2. version = [s \in Source |-> 1] /\ changes = 0 /\ draft = NotRead
  BY DEF Init
<1>3. DraftInv
  <2>1. \A f \in File : draft[f] = 0 /\ version[SourceOf(f)] = 1
    BY <1>2, FileType
  <2>2. Ordered(draft)
    BY <2>1 DEF Ordered, File, GithubFile
  <2> QED BY <1>2, <2>1, <2>2 DEF Init, DraftInv
<1>4. ChainInv
  <2>1. \A x \in Field, f \in File :
          shared[x][f] = 0 /\ reply[x][f] = 0 /\ answered[x][f] = 0
    BY FileType DEF Init
  <2>2. \A x \in Field : Ordered(shared[x]) /\ Ordered(reply[x]) /\ Ordered(answered[x])
    BY <2>1 DEF Ordered, File, GithubFile
  <2>3. \A f \in File : draft[f] = 0 /\ version[SourceOf(f)] = 1
    BY <1>2, FileType
  <2> QED BY <2>1, <2>2, <2>3 DEF Init, ChainInv
<1> QED
  BY <1>1, <1>3, <1>4 DEF IInv

(***************************************************************************)
(* A source changes: versions only grow.                                   *)
(***************************************************************************)
LEMMA ChangeIInv == ASSUME IInv, NEW s \in Source, Change(s) PROVE IInv'
<1> USE DEF IInv, fetchVars, orgVars, watchVars, httpVars
<1>1. /\ version' = [version EXCEPT ![s] = version[s] + 1]
      /\ changes < MaxChanges /\ changes' = changes + 1
      /\ UNCHANGED <<flags, phase, fetchVars, orgVars, watchVars, httpVars, answered, faults>>
  BY DEF Change, TypeOK
<1>2. version[s] <= changes + 1 /\ version[s] \in 1..(MaxChanges + 1) /\ changes \in 0..MaxChanges
  BY DEF TypeOK, DraftInv
<1>3. version' \in [Source -> 1..(MaxChanges + 1)]
  BY <1>1, <1>2, BoundAssumption DEF TypeOK
<1>4. TypeOK'
  BY <1>1, <1>2, <1>3, BoundAssumption DEF TypeOK
<1>5. \A r \in Source : version[r] <= version'[r] /\ version'[r] <= changes' + 1
  BY <1>1, <1>2, VersionType DEF TypeOK, DraftInv
<1>6. Wanted' = Wanted
  BY <1>1, WantedFixed
<1>7. ASSUME NEW f \in File, NEW n \in Nat, n <= version[SourceOf(f)]
      PROVE  n <= version'[SourceOf(f)]
  <2>1. version[SourceOf(f)] \in Nat /\ version'[SourceOf(f)] \in Nat
    BY <1>4, FileType, VersionType, BoundAssumption DEF TypeOK
  <2> QED BY <1>5, <1>7, <2>1, FileType
<1>8. DraftInv'
  BY <1>1, <1>5, <1>6, <1>7, VersionType DEF DraftInv
<1>9. ChainInv'
  BY <1>1, <1>6, <1>7, VersionType DEF ChainInv
<1> QED
  BY <1>4, <1>8, <1>9

(***************************************************************************)
(* The process ends: only clients remember.                                *)
(***************************************************************************)
LEMMA ExitIInv == ASSUME IInv, Exit, faults' \in 0..MaxFaults PROVE IInv'
<1> USE DEF IInv, Exit
<1>1. TypeOK'
  BY FileType DEF TypeOK
<1>2. Wanted' = Wanted
  BY WantedFixed
<1>3. \A f \in File : draft'[f] = 0 /\ \A x \in Field : shared'[x][f] = 0 /\ reply'[x][f] = 0
  BY FileType
<1>4. \A f \in File : version[SourceOf(f)] \in Nat
  BY FileType, VersionType
<1>5. DraftInv'
  <2>1. draft'["subcomponents"] = 0
    BY <1>3 DEF File, GithubFile
  <2> QED BY <1>2, <1>3, <1>4, <2>1 DEF DraftInv
<1>6. ChainInv'
  <2>1. \A x \in Field : Ordered(shared[x])' /\ Ordered(reply[x])' /\ Ordered(answered[x])'
    BY <1>3 DEF Ordered, File, GithubFile, ChainInv
  <2> QED BY <1>2, <1>3, <1>4, <2>1 DEF ChainInv
<1> QED
  BY <1>1, <1>5, <1>6

(***************************************************************************)
(* Steps that change neither versions nor where the data are.              *)
(***************************************************************************)
LEMMA UndisturbedIInv ==
  ASSUME IInv, UNCHANGED <<version, flags, draft, orgVars, httpVars, answered, changes>>,
         TypeOK', phase' = phase \/ (phase # "serving" /\ phase' # "serving"),
         fetching' = fetching \/ (fetching = "sleep" /\ fetching' = "read")
  PROVE  IInv'
<1> USE DEF IInv, orgVars, httpVars
<1>1. Wanted' = Wanted
  BY WantedFixed
<1>2. DraftInv'
  BY <1>1 DEF DraftInv
<1>3. ChainInv'
  BY <1>1 DEF ChainInv
<1> QED
  BY <1>2, <1>3

\* Starting, waking, watching and beginning to overwrite move no data.
LEMMA QuietIInv ==
  ASSUME IInv, Start \/ Wake \/ Watch \/ StartOverwrite \/ UNCHANGED vars
  PROVE  IInv'
<1> USE DEF fetchVars, orgVars, watchVars, httpVars
<1>1. CASE Start \/ Wake \/ UNCHANGED vars
  <2>1. TypeOK'
    BY <1>1 DEF Start, Wake, vars, IInv, TypeOK
  <2>2. /\ UNCHANGED <<version, flags, draft, orgVars, httpVars, answered, changes>>
        /\ phase' = phase \/ (phase # "serving" /\ phase' # "serving")
        /\ fetching' = fetching \/ (fetching = "sleep" /\ fetching' = "read")
    BY <1>1 DEF Start, Wake, vars
  <2> QED BY <2>1, <2>2, UndisturbedIInv
<1>2. CASE Watch
  <2>1. PICK w \in Watcher : StartWatching(w)
    BY <1>2 DEF Watch
  <2>2. TypeOK'
    BY <2>1 DEF StartWatching, IInv, TypeOK
  <2> QED BY <2>1, <2>2, UndisturbedIInv DEF StartWatching
<1>3. CASE StartOverwrite
  <2> USE <1>3 DEF StartOverwrite, IInv
  <2>1. TypeOK'
    BY DEF TypeOK
  <2>2. Wanted' = Wanted
    BY WantedFixed
  <2>3. DraftInv'
    BY <2>2 DEF DraftInv
  <2>4. ChainInv'
    BY <2>2 DEF ChainInv
  <2> QED BY <2>1, <2>3, <2>4
<1> QED
  BY <1>1, <1>2, <1>3

(***************************************************************************)
(* A file is read: in its newest version, which nothing else exceeds.  The *)
(* second file of the repository comes from no older a commit.             *)
(***************************************************************************)
LEMMA ReadIInv == ASSUME IInv, NEW f \in File, Read(f) PROVE IInv'
<1> DEFINE started == { <<w, version[w]>> : w \in WatchedWith(f) }
<1>1. /\ TypeOK /\ DraftInv /\ ChainInv
      /\ draft' = [draft EXCEPT ![f] = version[SourceOf(f)]]
      /\ spawned' = spawned \cup (started \ watching) /\ loaded' = loaded \cup started
      /\ fetching' = IF f = "sheet" THEN "publish" ELSE "read"
      /\ UNCHANGED <<version, flags, phase, orgVars, watching, httpVars, answered,
                     changes, faults>>
  BY DEF Read, IInv
<1>2. /\ phase # "down" /\ fetching = "read" /\ f \in Wanted /\ draft[f] = 0
      /\ f = "sheet" => \A h \in Wanted \ {"sheet"} : draft[h] # 0
      /\ f = "shiftzilla" => draft["subcomponents"] = 0
  BY <1>1, NextReadMeans DEF Read
<1>3. /\ draft'[f] = version[SourceOf(f)] /\ draft'[f] \in Nat \ {0}
      /\ \A h \in File \ {f} : draft'[h] = draft[h]
  BY <1>1, FileType, VersionType DEF TypeOK, Versions
<1>4. Wanted' = Wanted
  BY <1>1, WantedFixed
<1>5. TypeOK'
  <2>1. version[SourceOf(f)] \in 0..(MaxChanges + 1)
    BY <1>1, FileType, BoundAssumption DEF TypeOK
  <2>2. draft' \in Versions
    BY <1>1, <2>1 DEF TypeOK, Versions
  <2>3. started \subseteq Watcher
    <3>1. WatchedWith(f) \subseteq {"key", "test", "override"}
      BY DEF WatchedWith
    <3>2. \A w \in WatchedWith(f) : version[w] \in 1..(MaxChanges + 1)
      BY <1>1, <3>1 DEF TypeOK, Source
    <3> QED BY <3>1, <3>2 DEF Watcher
  <2> HIDE DEF started
  <2> QED BY <1>1, <2>2, <2>3 DEF TypeOK, orgVars, httpVars
<1>6. DraftInv'
  <2>1. \A h \in File : draft'[h] <= version[SourceOf(h)]
    BY <1>1, <1>3, FileType, VersionType DEF DraftInv
  <2>2. draft'["subcomponents"] # 0 => Ordered(draft)'
    <3>1. {"shiftzilla", "subcomponents"} \subseteq File
      BY DEF File, GithubFile
    <3>2. CASE f = "subcomponents"
      BY <1>1, <1>3, <3>1, <3>2, FileType DEF DraftInv, Ordered
    <3>3. CASE f = "shiftzilla"
      BY <1>2, <1>3, <3>1, <3>3
    <3>4. CASE f \notin {"shiftzilla", "subcomponents"}
      BY <1>1, <1>3, <3>1, <3>4 DEF DraftInv, Ordered
    <3> QED BY <3>2, <3>3, <3>4
  <2>3. f = "sheet" =>
          Ordered(draft)' /\ \A h \in Wanted : draft'[h] # 0
    <3> SUFFICES ASSUME f = "sheet"
                 PROVE  Ordered(draft)' /\ \A h \in Wanted : draft'[h] # 0
      OBVIOUS
    <3>1. \A h \in Wanted : draft'[h] # 0
      BY <1>2, <1>3, ReadsOrder
    <3>2. Ordered(draft)'
      <4>1. CASE "subcomponents" \in Wanted
        <5>1. draft'["subcomponents"] # 0
          BY <3>1, <4>1
        <5> QED BY <2>2, <5>1
      <4>2. CASE "subcomponents" \notin Wanted
        <5>1. "shiftzilla" \notin Wanted
          BY <4>2, ReadsOrder
        <5>2. draft["shiftzilla"] = 0 /\ draft["subcomponents"] = 0
          BY <1>1, <4>2, <5>1 DEF DraftInv, File, GithubFile
        <5>3. f # "shiftzilla" /\ f # "subcomponents"
          BY <1>2, <4>2, <5>1
        <5>4. draft'["shiftzilla"] = 0 /\ draft'["subcomponents"] = 0
          BY <1>3, <5>2, <5>3 DEF File, GithubFile
        <5> QED BY <5>4 DEF Ordered
      <4> QED BY <4>1, <4>2
    <3> QED BY <3>1, <3>2
  <2>4. \A h \in File \ Wanted : draft'[h] = 0
    BY <1>1, <1>2, <1>3 DEF DraftInv
  <2>5. copying = {}
    BY <1>1, <1>2 DEF DraftInv
  <2> QED BY <1>1, <1>4, <2>1, <2>2, <2>3, <2>4, <2>5 DEF DraftInv, orgVars, httpVars
<1>7. ChainInv'
  <2>1. ASSUME NEW x \in Field, NEW h \in File, draft'[h] # 0
        PROVE  answered[x][h] <= draft'[h] /\ shared[x][h] <= draft'[h]
    BY <1>1, <1>3, <2>1 DEF ChainInv
  <2> QED BY <1>1, <1>4, <2>1 DEF ChainInv, orgVars, httpVars
<1> QED
  BY <1>5, <1>6, <1>7 DEF IInv

(***************************************************************************)
(* All the fields are set, or one of them is overwritten, with data that   *)
(* are at least as new as what clients have got.                           *)
(***************************************************************************)
LEMMA PublishIInv ==
  ASSUME IInv, NEW X \in SUBSET Field,
         fetching = "publish", shared' \in [Field -> Versions],
         \A x \in X : shared'[x] = draft, \A x \in Field \ X : shared'[x] = shared[x],
         phase = "serving" \/ X = Field, phase' = "serving",
         draft' \in {draft, NotRead}, fetching' \in {"publish", "read", "sleep"},
         fetching' = "publish" => draft' = draft,
         copying' # {} => fetching' = "publish", copying' \subseteq copying,
         UNCHANGED <<version, flags, watchVars, httpVars, answered, changes, faults>>
  PROVE  IInv'
<1> USE DEF IInv, watchVars, httpVars
<1>1. Wanted' = Wanted
  BY WantedFixed
<1>2. TypeOK'
  BY FileType DEF TypeOK
<1>3. draft'["subcomponents"] # 0 => draft' = draft
  BY FileType DEF File, GithubFile
<1>4. \A f \in File : draft'[f] <= version[SourceOf(f)] /\ (draft'[f] # 0 => draft'[f] = draft[f])
  BY FileType, VersionType DEF DraftInv
<1>5. DraftInv'
  BY <1>1, <1>3, <1>4, FileType DEF DraftInv
<1>6. ASSUME NEW x \in Field, NEW f \in File
      PROVE  /\ answered[x][f] <= draft[f] /\ shared[x][f] <= draft[f]
             /\ shared'[x][f] <= draft[f] /\ shared[x][f] <= shared'[x][f]
             /\ answered[x][f] <= shared'[x][f]
  <2>1. answered[x][f] <= draft[f] /\ shared[x][f] <= draft[f]
    <3>1. CASE f \in Wanted
      BY <3>1 DEF DraftInv, ChainInv
    <3>2. CASE f \notin Wanted
      BY <3>2, VersionType DEF DraftInv, ChainInv
    <3> QED BY <3>1, <3>2
  <2>2. CASE x \in X
    BY <2>1, <2>2, VersionType
  <2>3. CASE x \notin X
    BY <2>1, <2>3, VersionType DEF ChainInv
  <2> QED BY <2>1, <2>2, <2>3
<1>7. \A x \in Field : Ordered(shared[x])'
  <2>1. \A x \in Field : shared'[x] = draft \/ shared'[x] = shared[x]
    OBVIOUS
  <2>2. Ordered(draft) /\ \A x \in Field : Ordered(shared[x])
    BY DEF DraftInv, ChainInv
  <2> QED BY <2>1, <2>2 DEF Ordered
<1>8. \A x \in Field : \A f \in File \ Wanted : shared'[x][f] = 0
  BY DEF DraftInv, ChainInv
<1>9. ASSUME NEW x \in Field, NEW f \in File
      PROVE  /\ shared'[x][f] <= version[SourceOf(f)]
             /\ draft'[f] # 0 => answered[x][f] <= draft'[f] /\ shared'[x][f] <= draft'[f]
             /\ encoding = <<"releases">> /\ x = "teams" => reply[x][f] <= shared'[x][f]
  <2>1. draft[f] <= version[SourceOf(f)] /\ version[SourceOf(f)] \in Nat
    BY FileType, VersionType DEF DraftInv
  <2>2. shared'[x][f] \in Nat /\ shared[x][f] \in Nat /\ reply[x][f] \in Nat /\ draft[f] \in Nat
    BY <1>2, VersionType DEF TypeOK, Versions
  <2>3. encoding = <<"releases">> /\ x = "teams" => reply[x][f] <= shared[x][f]
    BY DEF ChainInv
  <2> QED BY <1>4, <1>6, <2>1, <2>2, <2>3
<1>10. ChainInv'
  BY <1>1, <1>6, <1>7, <1>8, <1>9 DEF ChainInv
<1> QED
  BY <1>2, <1>5, <1>10

(***************************************************************************)
(* An answer gets its fields one after the other, each from what is shared *)
(* at that time.                                                           *)
(***************************************************************************)
LEMMA EncodeIInv == ASSUME IInv, Encode PROVE IInv'
<1> USE DEF IInv, fetchVars, orgVars, watchVars
<1>1. /\ UNCHANGED <<version, flags, phase, fetchVars, orgVars, watchVars, changes, faults>>
      /\ Wanted' = Wanted /\ phase = "serving"
  BY WantedFixed DEF Encode, DraftInv
<1>2. CASE encoding = <<"teams", "releases">>
  <2>1. /\ encoding' = <<"releases">> /\ answered' = answered
        /\ reply' = [reply EXCEPT !["teams"] = shared["teams"]]
    BY <1>2 DEF Encode
  <2>2. /\ reply'["teams"] = shared["teams"] /\ reply'["releases"] = reply["releases"]
        /\ reply' \in [Field -> Versions]
    BY <2>1 DEF TypeOK, Field
  <2>3. TypeOK'
    BY <1>1, <2>1, <2>2 DEF TypeOK
  <2>4. DraftInv'
    BY <1>1, <2>1 DEF DraftInv
  <2>5. \A x \in Field : Ordered(reply[x])'
    BY <2>2 DEF ChainInv, Ordered, Field
  <2>6. \A x \in Field : \A f \in File \ Wanted : reply'[x][f] = 0
    BY <2>2 DEF ChainInv, Field
  <2>7. \A f \in File : answered["teams"][f] <= reply'["teams"][f]
                      /\ reply'["teams"][f] <= shared["teams"][f]
    BY <1>1, <2>2, VersionType DEF ChainInv, Field
  <2>8. ChainInv'
    BY <1>1, <2>1, <2>5, <2>6, <2>7 DEF ChainInv, Ordered
  <2> QED BY <2>3, <2>4, <2>8
<1>3. CASE encoding = <<"releases">>
  <2>1. /\ encoding' = <<>> /\ reply' = [x \in Field |-> NotRead]
        /\ answered' = [reply EXCEPT !["releases"] = shared["releases"]]
    BY <1>3 DEF Encode
  <2>2. /\ answered'["teams"] = reply["teams"] /\ answered'["releases"] = shared["releases"]
        /\ answered' \in [Field -> Versions]
    BY <2>1 DEF TypeOK, Field
  <2>3. TypeOK'
    BY <1>1, <2>1, <2>2, FileType DEF TypeOK
  <2>4. DraftInv'
    BY <1>1, <2>1 DEF DraftInv
  <2>5. \A x \in Field, f \in File : reply'[x][f] = 0
    BY <2>1, FileType
  <2>6. ASSUME NEW x \in Field PROVE Ordered(answered[x])' /\ Ordered(reply[x])'
    <3>1. Ordered(reply[x])'
      BY <2>5 DEF Ordered, File, GithubFile
    <3>2. Ordered(answered[x])'
      BY <2>2 DEF ChainInv, Ordered, Field
    <3> QED BY <3>1, <3>2
  <2>7. \A x \in Field : \A f \in File \ Wanted : answered'[x][f] = 0
    BY <2>2 DEF ChainInv, Field
  <2>8. ASSUME NEW x \in Field, NEW f \in File
        PROVE  answered'[x][f] <= shared[x][f] /\ answered'[x][f] \in Nat
    BY <1>3, <2>2, VersionType DEF ChainInv, Field
  <2>9. ASSUME NEW x \in Field, NEW f \in File
        PROVE  /\ answered'[x][f] <= version[SourceOf(f)]
               /\ draft[f] # 0 => answered'[x][f] <= draft[f]
    BY <2>8, FileType, VersionType DEF ChainInv
  <2>10. ChainInv'
    BY <1>1, <2>1, <2>5, <2>6, <2>7, <2>8, <2>9 DEF ChainInv, Ordered
  <2> QED BY <2>3, <2>4, <2>10
<1> QED
  BY <1>2, <1>3 DEF Encode, TypeOK

\* A request comes in: nothing of its answer is encoded yet.
LEMMA RequestIInv == ASSUME IInv, Request PROVE IInv'
<1> USE DEF Request, IInv, fetchVars, orgVars, watchVars
<1>1. Wanted' = Wanted
  BY WantedFixed
<1>2. TypeOK'
  BY DEF TypeOK
<1>3. DraftInv'
  BY <1>1 DEF DraftInv
<1>4. encoding' # <<"releases">>
  OBVIOUS
<1>5. ChainInv'
  BY <1>1, <1>4 DEF ChainInv
<1> QED
  BY <1>2, <1>3, <1>5

\* Every step of the program and of its sources keeps the invariant.
LEMMA NextIInv == IInv /\ [Next]_vars => IInv'
<1> SUFFICES ASSUME IInv, [Next]_vars PROVE IInv'
  OBVIOUS
<1>1. ASSUME Serve PROVE IInv'
  <2> USE <1>1 DEF Serve
  <2>1. shared' \in [Field -> Versions] /\ \A x \in Field : shared'[x] = draft
    BY DEF IInv, TypeOK
  <2>2. copying = {} /\ copying' = {}
    BY DEF IInv, DraftInv
  <2>3. /\ fetching = "publish" /\ phase' = "serving"
        /\ draft' \in {draft, NotRead} /\ fetching' \in {"publish", "read", "sleep"}
        /\ fetching' # "publish" /\ copying' \subseteq copying
    BY <2>2
  <2>4. UNCHANGED <<version, flags, watchVars, httpVars, answered, changes, faults>>
    OBVIOUS
  <2> HIDE DEF Serve
  <2> QED BY <2>1, <2>2, <2>3, <2>4, PublishIInv
<1>2. ASSUME NEW x \in Field, CopyField(x) PROVE IInv'
  <2>1. /\ x \in copying /\ phase = "serving" /\ fetching = "publish"
        /\ shared' = [shared EXCEPT ![x] = draft]
        /\ UNCHANGED <<version, flags, phase, watchVars, httpVars, answered, changes, faults>>
        /\ copying' = copying \ {x}
    BY <1>2 DEF CopyField, IInv, DraftInv
  <2>2. /\ shared' \in [Field -> Versions] /\ shared'[x] = draft
        /\ \A y \in Field \ {x} : shared'[y] = shared[y]
    BY <2>1 DEF IInv, TypeOK
  <2>3. /\ draft' \in {draft, NotRead} /\ fetching' \in {"publish", "read", "sleep"}
        /\ fetching' = "publish" => draft' = draft
        /\ copying' # {} => fetching' = "publish"
    BY <1>2, <2>1 DEF CopyField, fetchVars
  <2> DEFINE X == {x}
  <2>4. /\ X \in SUBSET Field /\ \A y \in X : shared'[y] = draft
        /\ \A y \in Field \ X : shared'[y] = shared[y]
    BY <2>1, <2>2
  <2>5. /\ copying' \subseteq copying /\ phase' = "serving"
        /\ UNCHANGED <<version, flags, watchVars, httpVars, answered, changes, faults>>
    BY <2>1
  <2> HIDE DEF X
  <2> QED BY <2>1, <2>2, <2>3, <2>4, <2>5, PublishIInv
<1>3. ASSUME Stop \/ ReadFails \/ NoticeChange PROVE IInv'
  <2>1. Exit
    BY <1>3 DEF Stop, ReadFails, NoticeChange
  <2>2. faults' \in 0..MaxFaults
    BY <1>3, BoundAssumption DEF Stop, ReadFails, NoticeChange, IInv, TypeOK
  <2> QED BY <2>1, <2>2, ExitIInv
<1>4. CASE UNCHANGED vars
  BY <1>4, QuietIInv
<1> QED
  BY <1>1, <1>2, <1>3, <1>4, QuietIInv, ChangeIInv, ReadIInv, EncodeIInv, RequestIInv
  DEF Next, Fetch

(***************************************************************************)
(* Versions only get older along the chain from the sources to the clients.*)
(***************************************************************************)
THEOREM Invariance == Spec => []IInv
  BY InitIInv, NextIInv, PTL DEF Spec

\* Every reachable state has the types TypeOK states.
THEOREM TypeCorrect == Spec => []TypeOK
<1>1. IInv => TypeOK
  BY DEF IInv
<1> QED
  BY <1>1, Invariance, PTL

(***************************************************************************)
(* Subcomponents never come from an older commit than their teams.         *)
(***************************************************************************)
THEOREM OneKindOfMixture == Spec => []MixtureIsOrdered
<1>1. IInv => MixtureIsOrdered
  BY DEF IInv, TypeOK, ChainInv, MixtureIsOrdered, Range
<1> QED
  BY <1>1, Invariance, PTL

(***************************************************************************)
(* No client goes back in time, across overwrites and restarts.            *)
(***************************************************************************)
THEOREM TimeGoesOn == Spec => NeverBackwards
<1>1. IInv /\ [Next]_vars => [\A x \in Field, f \in File : answered[x][f] <= answered'[x][f]]_vars
  <2> SUFFICES ASSUME IInv, Next, NEW x \in Field, NEW f \in File
               PROVE  answered[x][f] <= answered'[x][f]
    OBVIOUS
  <2>1. answered[x][f] \in Nat
    BY VersionType DEF IInv
  <2>2. CASE answered' = answered
    BY <2>1, <2>2
  <2>3. CASE answered' # answered
    <3>1. Encode
      BY <2>3 DEF Next, Change, Start, Stop, Fetch, Read, Serve, StartOverwrite, Wake, CopyField,
                  ReadFails, Watch, StartWatching, NoticeChange, Request, Exit
    <3>2. phase = "serving" /\ encoding = <<"releases">>
      <4>1. phase = "serving" /\ encoding # <<>>
        BY <3>1 DEF Encode, IInv, DraftInv
      <4>2. encoding = <<"teams", "releases">> => answered' = answered
        BY <3>1 DEF Encode
      <4> QED BY <2>3, <4>1, <4>2 DEF IInv, TypeOK
    <3>3. answered' = [reply EXCEPT !["releases"] = shared["releases"]]
      BY <3>1, <3>2 DEF Encode
    <3>4. /\ answered'["teams"] = reply["teams"] /\ answered'["releases"] = shared["releases"]
      BY <3>3 DEF IInv, TypeOK, Field
    <3> QED BY <3>2, <3>4 DEF IInv, ChainInv, Field
  <2> QED BY <2>2, <2>3
<1> QED
  BY <1>1, Invariance, PTL DEF Spec, NeverBackwards

(***************************************************************************)
(* MergeWithOverwrite: components that the second file gives a team        *)
(* replace those of the first, and so do its lists of subcomponents, but   *)
(* for those that are there and empty.                                     *)
(***************************************************************************)
LEMMA MergeOverwrites ==
  ASSUME NEW base, NEW over, NEW t \in DOMAIN over, over[t] \in FileTeam
  PROVE  LET merged == MergeWithOverwrite(base, over)
             said == over[t].subcomponents
         IN  /\ t \in DOMAIN merged
             /\ "components" \in DOMAIN merged[t] /\ "subcomponents" \in DOMAIN merged[t]
             /\ over[t].components # {} => merged[t].components = over[t].components
             /\ \A c \in DOMAIN said : said[c] # {} \/ c \in over[t].nilLists =>
                  /\ c \in DOMAIN merged[t].subcomponents
                  /\ merged[t].subcomponents[c] = said[c]
<1> DEFINE merged == MergeWithOverwrite(base, over)
<1>1. /\ t \in DOMAIN merged
      /\ merged[t] = IF t \in DOMAIN base THEN MergeTeam(base[t], over[t]) ELSE over[t]
  BY DEF MergeWithOverwrite
<1> HIDE DEF merged
<1> DEFINE said == over[t].subcomponents
           Kept(info) ==
             /\ "components" \in DOMAIN info /\ "subcomponents" \in DOMAIN info
             /\ over[t].components # {} => info.components = over[t].components
             /\ \A c \in DOMAIN said : said[c] # {} \/ c \in over[t].nilLists =>
                  /\ c \in DOMAIN info.subcomponents
                  /\ info.subcomponents[c] = said[c]
<1>2. Kept(MergeTeam(base[t], over[t]))
  <2> DEFINE won == Overwriting(base[t], over[t])
             info == MergeTeam(base[t], over[t])
  <2>1. /\ "components" \in DOMAIN info /\ "subcomponents" \in DOMAIN info
        /\ over[t].components # {} => info.components = over[t].components
    BY DEF MergeTeam
  <2>2. info.subcomponents =
          [ c \in DOMAIN base[t].subcomponents \cup won |->
              IF c \in won THEN said[c] ELSE base[t].subcomponents[c] ]
    BY DEF MergeTeam
  <2> HIDE DEF info
  <2>3. ASSUME NEW c \in DOMAIN said, said[c] # {} \/ c \in over[t].nilLists
        PROVE  c \in won
    BY <2>3 DEF Overwriting
  <2> HIDE DEF won
  <2>4. ASSUME NEW c \in won
        PROVE  c \in DOMAIN info.subcomponents /\ info.subcomponents[c] = said[c]
    BY <2>2
  <2>5. Kept(info)
    BY <2>1, <2>3, <2>4
  <2> QED BY <2>5 DEF info
<1>3. Kept(over[t])
  BY DEF FileTeam
<1> HIDE DEF Kept
<1>4. Kept(merged[t])
  BY <1>1, <1>2, <1>3
<1> QED
  BY <1>1, <1>4 DEF merged, Kept

(***************************************************************************)
(* The sizes of the teams change no component and no subcomponent.         *)
(***************************************************************************)
LEMMA SizesKeepComponents ==
  ASSUME NEW org, NEW sizes, NEW t \in DOMAIN org,
         "components" \in DOMAIN org[t], "subcomponents" \in DOMAIN org[t]
  PROVE  /\ WithTeamSizes(org, sizes)[t].components = org[t].components
         /\ WithTeamSizes(org, sizes)[t].subcomponents = org[t].subcomponents
<1>1. WithTeamSizes(org, sizes)[t] =
        IF t \in DOMAIN sizes THEN [org[t] EXCEPT !.memberCount = sizes[t]] ELSE org[t]
  BY DEF WithTeamSizes
<1>2. /\ [org[t] EXCEPT !.memberCount = sizes[t]].components = org[t].components
      /\ [org[t] EXCEPT !.memberCount = sizes[t]].subcomponents = org[t].subcomponents
  OBVIOUS
<1> QED
  BY <1>1, <1>2

(***************************************************************************)
(* A team that answers for a component has it among its components, and    *)
(* the subcomponent in its list for the component, if it has one, unless   *)
(* the list is the tag of those that take what is left.                    *)
(***************************************************************************)
LEMMA AnswersClaim ==
  ASSUME NEW org, NEW c, NEW s, NEW t \in Answers(org, c, s), t # Unknown
  PROVE  /\ t \in DOMAIN org /\ c \in org[t].components
         /\ c \in DOMAIN org[t].subcomponents =>
              s \in org[t].subcomponents[c] \/ org[t].subcomponents[c] = {DefaultTag}
  BY DEF Answers, Owners, Defaults, IsTeam, IsDefault

(***************************************************************************)
(* No team is left whose only component is the tag.                        *)
(***************************************************************************)
LEMMA IgnoredAreGone ==
  ASSUME NEW org, NEW t \in DOMAIN WithoutIgnored(org)
  PROVE  /\ t \in DOMAIN org /\ org[t].components # {IgnoreTag}
         /\ WithoutIgnored(org)[t] = org[t]
  BY DEF WithoutIgnored, Restrict

(***************************************************************************)
(* The override file has the last word about the teams it names.           *)
(***************************************************************************)
THEOREM OverrideDecides == Spec => []OverridePrevails
<1>1. IInv => OverridePrevails
  <2> DEFINE v == shared["teams"]
             over == History["override"][v["override"]]
             base == IF v["test"] # 0 THEN History["test"][v["test"]]
                     ELSE MergeWithOverwrite(History["shiftzilla"][v["shiftzilla"]],
                                             History["subcomponents"][v["subcomponents"]])
             merged == MergeWithOverwrite(base, over)
             sized == WithTeamSizes(merged, History["sheet"][v["sheet"]])
  <2> SUFFICES ASSUME IInv, v["override"] # 0, NEW c, NEW s,
                      NEW t \in Answers(OrgDataFrom(v), c, s) \cap DOMAIN over
               PROVE  LET said == over[t].subcomponents
                      IN  /\ \/ over[t].components = {}
                             \/ c \in over[t].components /\ over[t].components # {IgnoreTag}
                          /\ c \in DOMAIN said /\ (said[c] # {} \/ c \in over[t].nilLists) =>
                               s \in said[c] \/ said[c] = {DefaultTag}
    BY DEF OverridePrevails
  <2>1. OrgDataFrom(v) = WithoutIgnored(sized)
    BY DEF OrgDataFrom
  <2>2. v["override"] \in 1..(MaxChanges + 1)
    <3>1. v \in Versions /\ "override" \in File
      BY DEF IInv, TypeOK, Field, File
    <3> QED BY <3>1, BoundAssumption DEF Versions
  <2>3. t \in Team /\ over[t] \in FileTeam
    <3>1. "override" \in File \ {"sheet"}
      BY DEF File
    <3> QED BY <2>2, <3>1, HistoryAssumption
  <2> HIDE DEF v, over, base, merged, sized
  <2> DEFINE said == over[t].subcomponents
  <2>4. /\ t \in DOMAIN merged
        /\ "components" \in DOMAIN merged[t] /\ "subcomponents" \in DOMAIN merged[t]
        /\ over[t].components # {} => merged[t].components = over[t].components
        /\ \A d \in DOMAIN said : said[d] # {} \/ d \in over[t].nilLists =>
             d \in DOMAIN merged[t].subcomponents /\ merged[t].subcomponents[d] = said[d]
    BY <2>3, MergeOverwrites DEF merged
  <2>5. /\ sized[t].components = merged[t].components
        /\ sized[t].subcomponents = merged[t].subcomponents
    BY <2>4, SizesKeepComponents DEF sized
  <2>6. /\ t \in DOMAIN WithoutIgnored(sized) /\ c \in WithoutIgnored(sized)[t].components
        /\ LET list == WithoutIgnored(sized)[t].subcomponents
           IN  c \in DOMAIN list => s \in list[c] \/ list[c] = {DefaultTag}
    BY <2>1, <2>3, NameAssumption, AnswersClaim
  <2>7. /\ WithoutIgnored(sized)[t] = sized[t]
        /\ sized[t].components # {IgnoreTag}
    BY <2>6, IgnoredAreGone
  <2>8. ASSUME over[t].components # {}
        PROVE  c \in over[t].components /\ over[t].components # {IgnoreTag}
    BY <2>4, <2>5, <2>6, <2>7, <2>8
  <2>9. ASSUME c \in DOMAIN said, said[c] # {} \/ c \in over[t].nilLists
        PROVE  s \in said[c] \/ said[c] = {DefaultTag}
    BY <2>4, <2>5, <2>6, <2>7, <2>9
  <2> QED BY <2>8, <2>9
<1> QED
  BY <1>1, Invariance, PTL
=============================================================================
