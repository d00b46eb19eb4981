-------------------------- MODULE StandaloneProofs --------------------------
(***************************************************************************)
(* Proofs about the modules that stand alone: the gauge, for every number  *)
(* of bugs and teams and any team maps; the cache, for every number of     *)
(* bugs, kinds, callers and revisions; and the watcher of builds, for every*)
(* number of commits, failures and builds that people start.               *)
(***************************************************************************)
EXTENDS BugGauge, BugCache, GitBuildWatcher, FiniteSetTheorems, TLAPS

-----------------------------------------------------------------------------
(* The gauge. *)

\* The old labels of the bugs not met yet and the new ones of the others.
LEMMA MixedLabels ==
  ASSUME OnePerBug(published), OnePerBug(target),
         NEW L, L \subseteq Left \cup Taken
  PROVE  OnePerBug(L)
  BY DEF OnePerBug, Left, Taken, IdsOf

(***************************************************************************)
(* Taking a bug moves it from the old labels to the new ones.              *)
(***************************************************************************)
LEMMA BeginBugKeepsPassInv ==
  ASSUME TypeOK, PassInv, NEW l \in todo, BeginBug(l)
  PROVE  PassInv'
<1> USE DEF BeginBug
<1> DEFINE old == { m \in lastGauges : m.id = l.id }
<1>1. /\ pass = "bug" /\ pass' = "with" /\ cur' = l
      /\ todo' = todo \ {l} /\ target' = target /\ published' = published
      /\ series' = series \ old /\ lit' = lit \ old
      /\ lastGauges' = lastGauges \ old
      /\ nextGauges' = { m \in nextGauges : m.id # l.id } \cup {l}
  OBVIOUS
<1>2. /\ OnePerBug(target) /\ OnePerBug(published) /\ todo \subseteq target
      /\ nextGauges = Taken /\ lastGauges = Left
      /\ series = Left \cup Taken
      /\ lit = series /\ cur = NoLabels
  <2>1. lit = series \ {NoLabels} /\ series = Left \cup Taken
    BY <1>1 DEF PassInv
  <2>2. NoLabels \notin series
    BY NoLabelsAssumption DEF TypeOK
  <2> QED
    BY <1>1, <2>1, <2>2 DEF PassInv
<1>3. Taken' = Taken \cup {l} /\ l \notin Taken
  BY <1>1, <1>2 DEF Taken
<1>4. \A m \in Taken : m.id # l.id
  BY <1>2 DEF Taken, OnePerBug
<1>5. Left' = Left \ old
  <2>1. Left' = { m \in published : m.id \notin IdsOf(Taken') }
    BY <1>1 DEF Left
  <2>2. IdsOf(Taken') = IdsOf(Taken) \cup {l.id}
    BY <1>3 DEF IdsOf
  <2> QED
    BY <1>2, <2>1, <2>2 DEF Left
<1>6. nextGauges' = Taken'
  BY <1>1, <1>2, <1>3, <1>4
<1>7. old \cap Taken = {} /\ l \notin Left \ old
  BY <1>2, <1>4
<1>8. series' = Left' \cup (Taken' \ {cur'}) /\ lit' = series' \ {cur'}
  BY <1>1, <1>2, <1>3, <1>5, <1>7
<1> QED
  BY <1>1, <1>2, <1>3, <1>5, <1>6, <1>8 DEF PassInv

\* What is left when every bug is taken is what the expiry loop deletes.
LEMMA StartExpireKeepsPassInv ==
  ASSUME TypeOK, PassInv, StartExpire
  PROVE  PassInv'
<1> USE DEF StartExpire
<1>1. Taken = target
  BY DEF Taken
<1>2. /\ lastGauges = { m \in published : m.id \notin IdsOf(target) }
      /\ nextGauges = target /\ series = lastGauges \cup target
  BY <1>1 DEF PassInv, Left
<1>3. lit = series
  <2>1. NoLabels \notin series
    BY NoLabelsAssumption DEF TypeOK
  <2>2. lit = series \ {NoLabels}
    BY DEF PassInv
  <2> QED
    BY <2>1, <2>2
<1>4. OnePerBug(target) /\ OnePerBug(published)
  BY DEF PassInv
<1>5. UNCHANGED <<series, lit, lastGauges, nextGauges, cur, target, published>>
      /\ pass' = "expire" /\ todo' = lastGauges
  OBVIOUS
<1>6. /\ OnePerBug(target') /\ OnePerBug(published')
      /\ nextGauges' = target'
      /\ todo' \subseteq { m \in published' : m.id \notin IdsOf(target') }
      /\ series' = target' \cup todo' /\ lit' = series'
  BY <1>2, <1>3, <1>4, <1>5
<1> QED
  BY <1>5, <1>6 DEF PassInv

\* Every reachable state has the types TypeOK states.
LEMMA GaugeTypeCorrect == Spec => []TypeOK
<1>1. Init => TypeOK
  BY DEF Init, TypeOK
<1>2. TypeOK /\ [Next]_gaugeVars => TypeOK'
  <2> SUFFICES ASSUME TypeOK, [Next]_gaugeVars PROVE TypeOK'
    OBVIOUS
  <2> USE DEF TypeOK
  <2>1. ASSUME NEW L \in SUBSET Labels, StartPass(L) PROVE TypeOK'
    BY <2>1 DEF StartPass
  <2>2. ASSUME NEW l \in todo, BeginBug(l) PROVE TypeOK'
    BY <2>2 DEF BeginBug
  <2>3. ASSUME NEW l \in todo, Expire(l) PROVE TypeOK'
    BY <2>3 DEF Expire
  <2>4. CASE With
    BY <2>4, NoLabelsAssumption DEF With
  <2>5. CASE SetOne
    BY <2>5 DEF SetOne
  <2>6. CASE StartExpire
    BY <2>6 DEF StartExpire
  <2>7. CASE EndPass
    BY <2>7 DEF EndPass
  <2>8. CASE Reset
    BY <2>8 DEF Reset
  <2>9. CASE UNCHANGED gaugeVars
    BY <2>9 DEF gaugeVars
  <2> QED
    BY <2>1, <2>2, <2>3, <2>4, <2>5, <2>6, <2>7, <2>8, <2>9 DEF Next, Update
<1> QED
  BY <1>1, <1>2, PTL DEF Spec

(***************************************************************************)
(* The strengthening of the gauge's properties is inductive.               *)
(***************************************************************************)
THEOREM GaugeInductive == Spec => []IInv
<1>1. Init => IInv
  <2> SUFFICES ASSUME Init PROVE PassInv /\ TypeOK
    BY DEF IInv
  <2>1. TypeOK
    BY DEF Init, TypeOK
  <2>2. PassInv
    BY DEF Init, PassInv, OnePerBug
  <2> QED
    BY <2>1, <2>2
<1>2. TypeOK /\ TypeOK' /\ PassInv /\ [Next]_gaugeVars
        => PassInv'
  <2> SUFFICES ASSUME TypeOK, TypeOK', PassInv,
                      [Next]_gaugeVars
               PROVE  PassInv'
    OBVIOUS
  <2>1. ASSUME NEW L \in SUBSET Labels, OnePerBug(L), StartPass(L)
        PROVE  PassInv'
    <3>1. /\ target' = L /\ todo' = L /\ published' = published
          /\ pass = "idle" /\ pass' = "bug" /\ nextGauges' = {}
          /\ UNCHANGED <<series, lit, lastGauges, cur>>
      BY <2>1 DEF StartPass
    <3>2. Taken' = {} /\ IdsOf({}) = {}
      BY <3>1 DEF Taken, IdsOf
    <3>3. Left' = published
      BY <3>1, <3>2 DEF Left
    <3>4. cur = NoLabels /\ NoLabels \notin series
      BY <3>1, NoLabelsAssumption DEF PassInv, TypeOK
    <3>5. lastGauges = published /\ series = published /\ lit = published
          /\ OnePerBug(published)
      BY <3>1 DEF PassInv
    <3> QED
      BY <2>1, <3>1, <3>2, <3>3, <3>4, <3>5 DEF PassInv
  <2>2. ASSUME NEW l \in todo, BeginBug(l) PROVE PassInv'
    BY <2>2, BeginBugKeepsPassInv
  <2>3. ASSUME NEW l \in todo, Expire(l) PROVE PassInv'
    <3>1. l \notin target
      BY <2>3 DEF Expire, PassInv, IdsOf
    <3> QED
      BY <2>3, <3>1 DEF Expire, PassInv, IdsOf
  <2>4. CASE With
    <3>1. Left' = Left /\ Taken' = Taken
      BY <2>4 DEF With, Left, Taken
    <3>2. /\ series = Left \cup (Taken \ {cur})
          /\ lit = series \ {cur} /\ cur \in Taken
      BY <2>4 DEF With, PassInv
    <3>3. series' = Left \cup Taken /\ lit' = series' \ {cur}
      BY <2>4, <3>2 DEF With
    <3> QED
      BY <2>4, <3>1, <3>2, <3>3 DEF With, PassInv
  <2>5. CASE SetOne
    <3>1. Left' = Left /\ Taken' = Taken
      BY <2>5 DEF SetOne, Left, Taken
    <3>2. NoLabels \notin series
      BY NoLabelsAssumption DEF TypeOK
    <3> QED
      BY <2>5, <3>1, <3>2 DEF SetOne, PassInv
  <2>6. CASE StartExpire
    BY <2>6, StartExpireKeepsPassInv
  <2>7. CASE EndPass
    BY <2>7 DEF EndPass, PassInv
  <2>8. CASE Reset
    BY <2>8 DEF Reset, PassInv, OnePerBug
  <2>9. CASE UNCHANGED gaugeVars
    <3>1. Left' = Left /\ Taken' = Taken
      BY <2>9 DEF gaugeVars, Left, Taken
    <3> QED
      BY <2>9, <3>1 DEF gaugeVars, PassInv
  <2> QED
    BY <2>1, <2>2, <2>3, <2>4, <2>5, <2>6, <2>7, <2>8, <2>9 DEF Next, Update
<1> QED
  BY <1>1, <1>2, GaugeTypeCorrect, PTL DEF Spec, IInv

(***************************************************************************)
(* No bug ever has two series, at any instant of any pass.                 *)
(***************************************************************************)
THEOREM NoDoubleCount == Spec => []OneSeriesPerBug
<1>1. IInv => OneSeriesPerBug
  <2> SUFFICES ASSUME IInv PROVE OnePerBug(series)
    BY DEF OneSeriesPerBug
  <2> USE DEF IInv
  <2>1. OnePerBug(published) /\ OnePerBug(target)
    BY DEF PassInv
  <2>2. CASE pass \in {"bug", "with", "set"}
    <3>1. series \subseteq Left \cup Taken
      BY <2>2 DEF PassInv
    <3> QED
      BY <2>1, <3>1, MixedLabels
  <2>3. CASE pass = "expire"
    <3>1. /\ series = target \cup todo
          /\ todo \subseteq { m \in published : m.id \notin IdsOf(target) }
      BY <2>3 DEF PassInv
    <3> QED
      BY <2>1, <3>1 DEF OnePerBug, IdsOf
  <2>4. CASE pass = "idle"
    BY <2>4 DEF PassInv
  <2> QED
    BY <2>2, <2>3, <2>4 DEF TypeOK
<1> QED
  BY <1>1, GaugeInductive, PTL

(***************************************************************************)
(* Between two passes the gauge shows the last team map, no more no less.  *)
(***************************************************************************)
THEOREM NoLeakedSeries == Spec => []GaugeIsExact
<1>1. IInv => GaugeIsExact
  BY DEF IInv, PassInv, GaugeIsExact
<1> QED
  BY <1>1, GaugeInductive, PTL

(***************************************************************************)
(* A scrape misses at most one of the bugs open before and after a pass.   *)
(***************************************************************************)
THEOREM ScrapeNearlyComplete == Spec => []ScrapeMissesAtMostOne
<1>1. IInv => ScrapeMissesAtMostOne
  <2> SUFFICES ASSUME IInv PROVE \A i, j \in Hidden : i = j
    BY DEF ScrapeMissesAtMostOne
  <2> USE DEF IInv
  <2>1. CASE pass \in {"idle", "expire"}
    <3>1. target \subseteq lit
      BY <2>1 DEF PassInv
    <3> QED
      BY <3>1 DEF Hidden, IdsOf
  <2>2. CASE pass \in {"bug", "with", "set"}
    <3>1. (Left \cup Taken) \ {cur} \subseteq lit
      BY <2>2 DEF PassInv
    <3>2. \A i \in IdsOf(published) \cap IdsOf(target) :
            i \in IdsOf(Left \cup Taken)
      BY DEF Left, IdsOf
    <3>3. \A i \in Hidden : i = cur.id
      BY <3>1, <3>2 DEF Hidden, IdsOf
    <3> QED
      BY <3>3
  <2> QED
    BY <2>1, <2>2 DEF TypeOK
<1> QED
  BY <1>1, GaugeInductive, PTL

-----------------------------------------------------------------------------
(* The cache. *)

\* Revisions only grow, so what was fresh stays fresh.
LEMMA ChangeKeepsFresh ==
  ASSUME CacheInv, NEW b \in BugID, ChangeBug(b)
  PROVE  CacheInv'
<1> USE RevisionAssumption DEF CacheInv, CacheTypeOK, ChangeBug
<1>1. \A d \in BugID : revision'[d] \in Revision /\ revision[d] <= revision'[d]
  BY DEF Revision
<1>2. CacheTypeOK'
  BY <1>1
<1>3. BucketsFresh'
  <2> SUFFICES ASSUME NEW i \in Item, bucket[i].data \in Revision
               PROVE  /\ bucket[i].revision <= bucket[i].data
                      /\ bucket[i].data <= revision'[i[2]]
    BY DEF BucketsFresh
  <2>1. /\ bucket[i].revision <= bucket[i].data
        /\ bucket[i].data <= revision[i[2]]
    BY DEF BucketsFresh
  <2> QED
    BY <1>1, <2>1 DEF Item, Revision
<1>4. CallersFresh'
  <2> SUFFICES ASSUME NEW c \in Caller
               PROVE  /\ pc[c] # "idle" => asked[c] <= revision'[item[c][2]]
                      /\ pc[c] = "set" => /\ asked[c] <= answer[c]
                                          /\ answer[c] <= revision'[item[c][2]]
    BY DEF CallersFresh
  <2>1. item[c][2] \in BugID /\ asked[c] \in Nat
    BY DEF Item, Revision, NoRevision
  <2>2. CASE pc[c] = "set"
    <3>1. answer[c] \in Nat
      BY <2>2 DEF Revision
    <3> QED
      BY <1>1, <2>1, <2>2, <3>1 DEF CallersFresh, Revision
  <2>3. CASE pc[c] # "set"
    BY <1>1, <2>1, <2>3 DEF CallersFresh, Revision
  <2> QED
    BY <2>2, <2>3
<1>5. NeverOlder'
  BY DEF NeverOlder
<1> QED
  BY <1>2, <1>3, <1>4, <1>5

\* A call returns bytes kept under the very revision it asked for.
LEMMA CachedIsFresh ==
  ASSUME CacheInv, NEW c \in Caller, ReturnCached(c)
  PROVE  bucket[item[c]].data \in Revision /\ bucket[item[c]].data >= asked[c]
<1> USE DEF CacheInv, CacheTypeOK, ReturnCached, Hit
<1>1. item[c] \in Item
  OBVIOUS
<1>2. bucket[item[c]].data \in Revision
  BY <1>1 DEF Bucket, Content
<1>3. bucket[item[c]].revision <= bucket[item[c]].data
  BY <1>1, <1>2 DEF BucketsFresh
<1> QED
  BY <1>2, <1>3 DEF Revision

(***************************************************************************)
(* The inductive invariant: nothing on its way to a caller or to the       *)
(* database is older than the revision it will be taken for.               *)
(***************************************************************************)
THEOREM CacheInductive == CacheSpec => []CacheInv
<1> USE RevisionAssumption
<1>1. CacheInit => CacheInv
  <2> SUFFICES ASSUME CacheInit PROVE CacheInv
    OBVIOUS
  <2> USE DEF CacheInit
  <2>1. CacheTypeOK
    BY DEF CacheTypeOK, Revision, Bucket, Content, EmptyBucket
  <2>2. BucketsFresh
    BY NoContentAssumption DEF BucketsFresh, EmptyBucket, Revision
  <2>3. CallersFresh /\ NeverOlder
    BY DEF CallersFresh, NeverOlder
  <2> QED
    BY <2>1, <2>2, <2>3 DEF CacheInv
<1>2. CacheInv /\ [CacheNext]_cacheVars => CacheInv'
  <2> SUFFICES ASSUME CacheInv, [CacheNext]_cacheVars PROVE CacheInv'
    OBVIOUS
  <2>1. ASSUME NEW b \in BugID, ChangeBug(b) PROVE CacheInv'
    BY <2>1, ChangeKeepsFresh
  <2>2. ASSUME NEW i \in Item, Damage(i) PROVE CacheInv'
    <3> USE <2>2 DEF CacheInv, Damage
    <3>1. CacheTypeOK'
      <4>1. [bucket[i] EXCEPT !.data = Garbage] \in Bucket
        BY DEF CacheTypeOK, Bucket, Content
      <4>2. bucket' \in [Item -> Bucket]
        BY <4>1 DEF CacheTypeOK
      <4> QED
        BY <4>2 DEF CacheTypeOK
    <3>2. Garbage \notin Revision
      BY NoContentAssumption DEF Revision
    <3>3. \A j \in Item : j # i => bucket'[j] = bucket[j]
      BY DEF CacheTypeOK
    <3>4. bucket'[i].data = Garbage
      BY DEF CacheTypeOK, Bucket
    <3>5. BucketsFresh'
      BY <3>2, <3>3, <3>4 DEF BucketsFresh
    <3>6. CallersFresh' /\ NeverOlder'
      BY DEF CallersFresh, NeverOlder
    <3> QED
      BY <3>1, <3>5, <3>6
  <2>3. ASSUME NEW c \in Caller, NEW i \in Item, NEW r \in Revision \cup {NoRevision},
               Call(c, i, r)
        PROVE  CacheInv'
    <3> USE <2>3 DEF CacheInv, Call
    <3>1. CacheTypeOK'
      BY DEF CacheTypeOK
    <3>2. r <= revision[i[2]]
      BY DEF CacheTypeOK, Item, Revision, NoRevision
    <3>3. BucketsFresh'
      BY DEF BucketsFresh
    <3>4. CallersFresh'
      BY <3>2 DEF CallersFresh, CacheTypeOK
    <3>5. NeverOlder'
      BY DEF NeverOlder, CacheTypeOK
    <3> QED
      BY <3>1, <3>3, <3>4, <3>5
  <2>4. ASSUME NEW c \in Caller, ReturnCached(c) PROVE CacheInv'
    <3> USE <2>4 DEF CacheInv, ReturnCached, Return
    <3>1. bucket[item[c]].data \in Revision /\ bucket[item[c]].data >= asked[c]
      BY CachedIsFresh DEF ReturnCached
    <3>2. CacheTypeOK'
      BY <3>1 DEF CacheTypeOK
    <3>3. BucketsFresh' /\ CallersFresh'
      BY DEF BucketsFresh, CallersFresh, CacheTypeOK
    <3>4. NeverOlder'
      BY <3>1 DEF NeverOlder, CacheTypeOK
    <3> QED
      BY <3>2, <3>3, <3>4
  <2>5. ASSUME NEW c \in Caller, Miss(c) PROVE CacheInv'
    <3> USE <2>5 DEF CacheInv, Miss
    <3>1. CacheTypeOK'
      BY DEF CacheTypeOK
    <3>2. BucketsFresh' /\ CallersFresh' /\ NeverOlder'
      BY DEF BucketsFresh, CallersFresh, NeverOlder, CacheTypeOK
    <3> QED
      BY <3>1, <3>2
  <2>6. ASSUME NEW c \in Caller, Fetch(c) PROVE CacheInv'
    <3> USE <2>6 DEF CacheInv, Fetch
    <3>1. revision[item[c][2]] \in Revision /\ revision[item[c][2]] # Nothing
      BY NoContentAssumption DEF CacheTypeOK, Item, Revision
    <3>2. CacheTypeOK'
      BY <3>1 DEF CacheTypeOK
    <3>3. CallersFresh'
      BY <3>1 DEF CallersFresh, CacheTypeOK, Revision
    <3>4. BucketsFresh' /\ NeverOlder'
      BY DEF BucketsFresh, NeverOlder
    <3> QED
      BY <3>2, <3>3, <3>4
  <2>7. ASSUME NEW c \in Caller, FetchFails(c) PROVE CacheInv'
    <3> USE <2>7 DEF CacheInv, FetchFails, Return
    <3>1. CacheTypeOK'
      BY DEF CacheTypeOK
    <3>2. BucketsFresh' /\ CallersFresh' /\ NeverOlder'
      BY DEF BucketsFresh, CallersFresh, NeverOlder, CacheTypeOK
    <3> QED
      BY <3>1, <3>2
  <2>8. ASSUME NEW c \in Caller, Store(c) PROVE CacheInv'
    <3> USE <2>8 DEF CacheInv, Store, Return
    <3>1. /\ answer[c] \in Revision /\ answer[c] <= revision[item[c][2]]
          /\ asked[c] <= answer[c] /\ item[c] \in Item
          /\ KeptUnder(c) \in Revision \cup {NoRevision}
          /\ KeptUnder(c) <= answer[c]
      BY DEF CacheTypeOK, CallersFresh, KeptUnder, Revision
    <3>2. CacheTypeOK'
      BY <3>1 DEF CacheTypeOK, Bucket, Content
    <3>3. BucketsFresh'
      BY <3>1 DEF BucketsFresh, CacheTypeOK
    <3>4. CallersFresh'
      BY DEF CallersFresh, CacheTypeOK
    <3>5. NeverOlder'
      BY <3>1 DEF NeverOlder, CacheTypeOK, Revision, NoRevision
    <3> QED
      BY <3>2, <3>3, <3>4, <3>5
  <2>9. ASSUME NEW c \in Caller, StoreFails(c) PROVE CacheInv'
    <3> USE <2>9 DEF CacheInv, StoreFails, Return
    <3>1. answer[c] \in Revision /\ asked[c] <= answer[c]
      BY DEF CacheTypeOK, CallersFresh
    <3>2. CacheTypeOK'
      BY <3>1 DEF CacheTypeOK
    <3>3. BucketsFresh' /\ CallersFresh'
      BY DEF BucketsFresh, CallersFresh, CacheTypeOK
    <3>4. NeverOlder'
      BY <3>1 DEF NeverOlder, CacheTypeOK, Revision, NoRevision
    <3> QED
      BY <3>2, <3>3, <3>4
  <2>10. CASE UNCHANGED cacheVars
    BY <2>10 DEF cacheVars, CacheInv, CacheTypeOK, BucketsFresh, CallersFresh, NeverOlder
  <2> QED
    BY <2>1, <2>2, <2>3, <2>4, <2>5, <2>6, <2>7, <2>8, <2>9, <2>10 DEF CacheNext
<1> QED
  BY <1>1, <1>2, PTL DEF CacheSpec

(***************************************************************************)
(* No call returns an item older than the revision its caller knows of.    *)
(***************************************************************************)
THEOREM CacheNeverOlder == CacheSpec => []NeverOlder
  BY CacheInductive, PTL DEF CacheInv

(***************************************************************************)
(* A call that ends has an item for its caller that is new enough, or the  *)
(* error of a request to Bugzilla: bytes that do not decode, and a database *)
(* that does not take what it is given, cost no call its answer.           *)
(***************************************************************************)
THEOREM CallsAreAnswered == CacheSpec => CallsAnswer
<1> DEFINE Answered(c) ==
             pc[c] # "idle" /\ pc'[c] = "idle" =>
               \/ result'[c] \in Revision /\ result'[c] >= asked[c]
               \/ result'[c] = Nothing /\ pc[c] # "get"
<1>1. ASSUME CacheInv, CacheInv', CacheNext, NEW c \in Caller PROVE Answered(c)
  <2> USE <1>1 DEF CacheInv, CacheTypeOK
  <2>1. CASE (\E b \in BugID : ChangeBug(b)) \/ (\E i \in Item : Damage(i))
    BY <2>1 DEF ChangeBug, Damage
  <2>2. ASSUME NEW d \in Caller,
               \/ \E i \in Item, r \in Revision \cup {NoRevision} : Call(d, i, r)
               \/ Miss(d) \/ Fetch(d)
        PROVE  Answered(c)
    BY <2>2 DEF Call, Miss, Fetch
  <2>3. ASSUME NEW d \in Caller, FetchFails(d) PROVE Answered(c)
    BY <2>3 DEF FetchFails, Return
  <2>4. ASSUME NEW d \in Caller, ReturnCached(d) PROVE Answered(c)
    <3>1. bucket[item[d]].data \in Revision /\ bucket[item[d]].data >= asked[d]
      BY <2>4, CachedIsFresh
    <3> QED BY <2>4, <3>1 DEF ReturnCached, Return
  <2>5. ASSUME NEW d \in Caller, Store(d) \/ StoreFails(d) PROVE Answered(c)
    <3>1. answer[d] \in Revision /\ asked[d] <= answer[d]
      BY <2>5 DEF CallersFresh, Store, StoreFails
    <3>2. answer[d] >= asked[d]
      BY <3>1 DEF Revision, NoRevision
    <3> QED BY <2>5, <3>1, <3>2 DEF Store, StoreFails, Return
  <2> QED
    BY <2>1, <2>2, <2>3, <2>4, <2>5 DEF CacheNext
<1>2. CacheInv /\ CacheInv' /\ [CacheNext]_cacheVars
        => [\A c \in Caller : Answered(c)]_cacheVars
  BY <1>1
<1> QED
  BY <1>2, CacheInductive, PTL DEF CacheSpec, CallsAnswer

(***************************************************************************)
(* No bucket is taken for a revision newer than its data.                  *)
(***************************************************************************)
THEOREM CacheFresh == CacheSpec => []BucketsFresh
  BY CacheInductive, PTL DEF CacheInv

-----------------------------------------------------------------------------
(* The watcher. *)

USE DEF NoCommit

(***************************************************************************)
(* The counters are numbers, and so are the revisions.                     *)
(***************************************************************************)
LEMMA Numbers ==
  ASSUME WatchTypeOK
  PROVE  /\ head \in Nat /\ commitish \in Nat /\ failures \in Nat /\ manual \in Nat
         /\ builds \in Seq(Build) /\ Len(builds) \in Nat
         /\ DOMAIN builds = 1..Len(builds)
         /\ \A i \in DOMAIN builds : /\ builds[i].revision \in Nat
                                     /\ builds[i].phase \in {"active", "complete", "failed"}
  <1>1. \A r \in Build : r.revision \in Nat /\ r.phase \in {"active", "complete", "failed"}
    BY BoundAssumption DEF Build, Commit
  <1> QED BY <1>1, BoundAssumption DEF WatchTypeOK, Commit

(***************************************************************************)
(* The builds that wait are finitely many.                                 *)
(***************************************************************************)
LEMMA WaitingFinite ==
  ASSUME WatchTypeOK
  PROVE  IsFiniteSet(Waiting) /\ Cardinality(Waiting) \in Nat
  <1>1. IsFiniteSet(1..Len(builds)) /\ Waiting \subseteq 1..Len(builds)
    BY Numbers, FS_Interval DEF Waiting
  <1> QED BY <1>1, FS_Subset, FS_CardinalityType

(***************************************************************************)
(* A new build waits behind the others.                                    *)
(***************************************************************************)
LEMMA NewBuildWaits ==
  ASSUME WatchTypeOK, builds' = Append(builds, NewBuild)
  PROVE  /\ builds' \in Seq(Build) /\ Len(builds') = Len(builds) + 1
         /\ \A i \in DOMAIN builds : builds'[i] = builds[i]
         /\ builds' # <<>> /\ Last(builds') = NewBuild
         /\ Waiting' = Waiting \cup {Len(builds) + 1}
         /\ Cardinality(Waiting') = Cardinality(Waiting) + 1
  <1>1. NewBuild \in Build
    BY DEF NewBuild, Build
  <1>2. /\ builds \in Seq(Build) /\ Len(builds) \in Nat /\ DOMAIN builds = 1..Len(builds)
    BY Numbers
  <1>3. /\ builds' \in Seq(Build) /\ Len(builds') = Len(builds) + 1
        /\ DOMAIN builds' = 1..(Len(builds) + 1)
        /\ \A i \in DOMAIN builds : builds'[i] = builds[i]
        /\ builds'[Len(builds) + 1] = NewBuild
    BY <1>1, <1>2
  <1>4. builds' # <<>> /\ Last(builds') = NewBuild
    BY <1>2, <1>3 DEF Last
  <1>5. Waiting' = Waiting \cup {Len(builds) + 1}
    <2>1. NewBuild.phase = "active" /\ NewBuild.revision = NoCommit
      BY DEF NewBuild
    <2> QED BY <2>1, <1>2, <1>3 DEF Waiting
  <1>6. Len(builds) + 1 \notin Waiting
    BY <1>2 DEF Waiting
  <1> QED BY <1>3, <1>4, <1>5, <1>6, WaitingFinite, FS_AddElement

(***************************************************************************)
(* A new build leaves the queue in order.                                  *)
(***************************************************************************)
LEMMA NewBuildQueue ==
  ASSUME WatchTypeOK, QueueInv, builds' = Append(builds, NewBuild), head' = head
  PROVE  QueueInv'
  <1>1. /\ DOMAIN builds = 1..Len(builds) /\ DOMAIN builds' = 1..(Len(builds) + 1)
        /\ Len(builds) \in Nat /\ head \in Nat
    BY Numbers, NewBuildWaits
  <1>2. \A i \in DOMAIN builds' : builds'[i].revision <= head'
    <2> SUFFICES ASSUME NEW i \in DOMAIN builds' PROVE builds'[i].revision <= head
      OBVIOUS
    <2>1. CASE i = Len(builds) + 1
      BY <2>1, <1>1 DEF NewBuild
    <2>2. CASE i \in DOMAIN builds
      BY <2>2, NewBuildWaits DEF QueueInv
    <2> QED BY <2>1, <2>2, <1>1
  <1>3. \A i \in DOMAIN builds' \ Waiting' :
          \A k \in 1..(i - 1) : builds'[k].phase # "active"
    <2> SUFFICES ASSUME NEW i \in DOMAIN builds' \ Waiting', NEW k \in 1..(i - 1)
                 PROVE  builds'[k].phase # "active"
      OBVIOUS
    <2>1. i \in DOMAIN builds \ Waiting
      BY <1>1, NewBuildWaits
    <2>2. k \in DOMAIN builds
      BY <2>1, <1>1
    <2> QED BY <2>1, <2>2, NewBuildWaits DEF QueueInv
  <1> QED BY <1>2, <1>3 DEF QueueInv

\* The watcher has started nothing yet.
LEMMA WatchInitInv == WatchInit => WatchInv
  <1> SUFFICES ASSUME WatchInit PROVE WatchInv
    OBVIOUS
  <1>1. WatchTypeOK
    BY BoundAssumption DEF WatchInit, WatchTypeOK, Commit
  <1>2. Waiting = {}
    BY DEF WatchInit, Waiting
  <1>3. Cardinality(Waiting) = 0
    BY <1>2, FS_EmptySet
  <1>4. QueueInv /\ LatestInv /\ PollInv
    BY DEF WatchInit, QueueInv, LatestInv, PollInv
  <1>5. OneWaiting /\ NoNeedlessBuilds
    BY <1>3 DEF WatchInit, OneWaiting, NoNeedlessBuilds
  <1> QED BY <1>1, <1>4, <1>5 DEF WatchInv

(***************************************************************************)
(* A push only makes room.                                                 *)
(***************************************************************************)
LEMMA PushInv == ASSUME WatchInv, Push PROVE WatchInv'
  <1>1. WatchTypeOK'
    BY BoundAssumption DEF WatchInv, WatchTypeOK, Push, Commit
  <1>2. /\ head' = head + 1 /\ head \in Nat
        /\ Waiting' = Waiting /\ Incidents' = Incidents
        /\ commitish \in Nat /\ Len(builds) \in Nat /\ Incidents \in Nat
    BY Numbers DEF WatchInv, Push, Waiting, Incidents
  <1>3. QueueInv'
    BY <1>2, Numbers DEF WatchInv, QueueInv, Push
  <1>4. LatestInv' /\ PollInv'
    BY <1>2 DEF WatchInv, LatestInv, PollInv, Push
  <1>5. OneWaiting' /\ NoNeedlessBuilds'
    <2>1. failures \in Nat /\ manual \in Nat
      BY Numbers DEF WatchInv
    <2> QED BY <1>2, <2>1 DEF WatchInv, OneWaiting, NoNeedlessBuilds, Push
  <1> QED BY <1>1, <1>3, <1>4, <1>5 DEF WatchInv

(***************************************************************************)
(* A build that people start counts for itself.                            *)
(***************************************************************************)
LEMMA StartManuallyInv == ASSUME WatchInv, StartManually PROVE WatchInv'
  <1>1. /\ manual' = manual + 1 /\ builds' = Append(builds, NewBuild)
        /\ UNCHANGED <<head, watcher, commitish, failures>>
    BY DEF StartManually
  <1>2. WatchTypeOK'
    BY <1>1, NewBuildWaits, BoundAssumption DEF WatchInv, WatchTypeOK, StartManually
  <1>3. /\ Incidents' = Incidents + 1 /\ Incidents \in Nat /\ manual \in Nat
        /\ head \in Nat /\ commitish \in Nat /\ failures \in Nat /\ Len(builds) \in Nat
        /\ Len(builds') = Len(builds) + 1
        /\ Cardinality(Waiting) \in Nat /\ Cardinality(Waiting') = Cardinality(Waiting) + 1
    BY <1>1, Numbers, NewBuildWaits, WaitingFinite DEF WatchInv, Incidents
  <1>4. QueueInv'
    BY <1>1, NewBuildQueue DEF WatchInv
  <1>5. LatestInv'
    BY <1>1, NewBuildWaits DEF WatchInv, LatestInv, NewBuild
  <1>6. PollInv'
    BY <1>1, <1>3 DEF WatchInv, PollInv
  <1>7. OneWaiting' /\ NoNeedlessBuilds'
    BY <1>1, <1>3 DEF WatchInv, OneWaiting, NoNeedlessBuilds
  <1> QED BY <1>2, <1>4, <1>5, <1>6, <1>7 DEF WatchInv

(***************************************************************************)
(* The build whose turn it is has none before it that waits; what happens  *)
(* to it changes no other, and none comes to wait.                         *)
(***************************************************************************)
LEMMA RunningBuild ==
  ASSUME WatchInv, NEW i \in DOMAIN builds, Running(i), NEW b \in Build,
         builds' = [builds EXCEPT ![i] = b],
         b.revision # NoCommit \/ b.phase # "active",
         b.revision <= head, head' = head
  PROVE  /\ builds' \in Seq(Build) /\ Len(builds') = Len(builds) /\ builds'[i] = b
         /\ \A k \in DOMAIN builds \ {i} : builds'[k] = builds[k]
         /\ Waiting' = Waiting \ {i} /\ Cardinality(Waiting') <= Cardinality(Waiting)
         /\ Cardinality(Waiting') \in Nat
         /\ QueueInv'
  <1>1. /\ builds \in Seq(Build) /\ Len(builds) \in Nat /\ DOMAIN builds = 1..Len(builds)
        /\ i \in Nat /\ IsFiniteSet(Waiting) /\ Cardinality(Waiting) \in Nat
    BY Numbers, WaitingFinite DEF WatchInv
  <1>2. /\ builds' \in Seq(Build) /\ Len(builds') = Len(builds) /\ builds'[i] = b
        /\ DOMAIN builds' = DOMAIN builds
        /\ \A k \in DOMAIN builds \ {i} : builds'[k] = builds[k]
    BY <1>1
  <1>3. Waiting' = Waiting \ {i}
    BY <1>2 DEF Waiting
  <1>4. /\ Cardinality(Waiting') <= Cardinality(Waiting)
        /\ Cardinality(Waiting') \in Nat
    BY <1>1, <1>3, FS_RemoveElement, FS_Subset, FS_CardinalityType
  <1>5. \A k \in DOMAIN builds' : builds'[k].revision <= head'
    BY <1>2 DEF WatchInv, QueueInv
  <1>6. ASSUME NEW m \in DOMAIN builds' \ Waiting', NEW k \in 1..(m - 1)
        PROVE  builds'[k].phase # "active"
    <2>1. k \in DOMAIN builds /\ k < m /\ m \in DOMAIN builds /\ k \in Nat /\ m \in Nat
      BY <1>1, <1>2
    <2>2. CASE m = i
      <3>1. k # i /\ builds'[k] = builds[k]
        BY <1>2, <2>1, <2>2
      <3> QED BY <3>1, <2>2 DEF Running
    <2>3. CASE m # i
      <3>1. m \notin Waiting
        BY <1>3, <2>3
      <3>2. builds[k].phase # "active"
        BY <3>1, <2>1 DEF WatchInv, QueueInv
      <3>3. k # i
        BY <3>2 DEF Running
      <3> QED BY <3>2, <3>3, <2>1, <1>2
    <2> QED BY <2>2, <2>3
  <1>7. QueueInv'
    BY <1>5, <1>6 DEF QueueInv
  <1> QED BY <1>2, <1>3, <1>4, <1>7

(***************************************************************************)
(* A build that fetches the source has the head for its revision.          *)
(***************************************************************************)
LEMMA FetchSourceInv ==
  ASSUME WatchInv, NEW i \in DOMAIN builds, FetchSource(i)
  PROVE  WatchInv'
  <1> DEFINE b == [builds[i] EXCEPT !.revision = head]
  <1>1. /\ builds \in Seq(Build) /\ Len(builds) \in Nat /\ DOMAIN builds = 1..Len(builds)
        /\ head \in Nat /\ head # NoCommit /\ head \in Commit
        /\ builds[i] \in Build /\ failures \in Nat /\ manual \in Nat
    BY Numbers DEF WatchInv, WatchTypeOK, Commit
  <1>2. /\ b \in Build /\ b.revision = head
        /\ b.revision # NoCommit /\ b.revision <= head
    BY <1>1 DEF Build
  <1>3. /\ Running(i) /\ builds' = [builds EXCEPT ![i] = b]
        /\ UNCHANGED <<head, watcher, commitish, failures, manual>>
    BY DEF FetchSource
  <1> HIDE DEF b
  <1>4. /\ builds' \in Seq(Build) /\ Len(builds') = Len(builds) /\ builds'[i] = b
        /\ \A k \in DOMAIN builds \ {i} : builds'[k] = builds[k]
        /\ Cardinality(Waiting') <= Cardinality(Waiting)
        /\ Cardinality(Waiting') \in Nat /\ QueueInv'
    BY <1>1, <1>2, <1>3, RunningBuild
  <1>5. WatchTypeOK'
    BY <1>3, <1>4 DEF WatchInv, WatchTypeOK
  <1>6. LatestInv'
    <2>1. CASE i = Len(builds)
      BY <1>1, <1>2, <1>3, <1>4, <2>1 DEF WatchInv, NoNeedlessBuilds, LatestInv, Last, Incidents
    <2>2. CASE i # Len(builds)
      <3>1. builds # <<>> /\ Last(builds') = Last(builds)
        BY <1>1, <1>4, <2>2 DEF Last
      <3> QED BY <3>1, <1>3, <1>4 DEF WatchInv, LatestInv, Incidents
    <2> QED BY <2>1, <2>2
  <1>7. /\ Cardinality(Waiting) \in Nat /\ manual \in Nat
    BY WaitingFinite, Numbers DEF WatchInv
  <1>8. PollInv' /\ OneWaiting' /\ NoNeedlessBuilds'
    BY <1>3, <1>4, <1>7 DEF WatchInv, PollInv, OneWaiting, NoNeedlessBuilds, Incidents
  <1> QED BY <1>4, <1>5, <1>6, <1>8 DEF WatchInv

(***************************************************************************)
(* A build that completes keeps its revision.                              *)
(***************************************************************************)
LEMMA CompleteInv ==
  ASSUME WatchInv, NEW i \in DOMAIN builds, Complete(i)
  PROVE  WatchInv'
  <1> DEFINE b == [builds[i] EXCEPT !.phase = "complete"]
  <1>1. /\ builds \in Seq(Build) /\ Len(builds) \in Nat /\ DOMAIN builds = 1..Len(builds)
        /\ builds[i] \in Build
    BY Numbers DEF WatchInv
  <1>2. /\ b \in Build /\ b.revision = builds[i].revision
        /\ b.revision # NoCommit /\ b.revision <= head
    BY <1>1 DEF Build, Complete, WatchInv, QueueInv
  <1>3. /\ Running(i) /\ builds' = [builds EXCEPT ![i] = b]
        /\ UNCHANGED <<head, watcher, commitish, failures, manual>>
    BY DEF Complete
  <1> HIDE DEF b
  <1>4. /\ builds' \in Seq(Build) /\ Len(builds') = Len(builds) /\ builds'[i] = b
        /\ \A k \in DOMAIN builds \ {i} : builds'[k] = builds[k]
        /\ Cardinality(Waiting') <= Cardinality(Waiting)
        /\ Cardinality(Waiting') \in Nat /\ QueueInv'
    BY <1>2, <1>3, RunningBuild
  <1>5. WatchTypeOK'
    BY <1>3, <1>4 DEF WatchInv, WatchTypeOK
  <1>6. LatestInv'
    <2>1. CASE i = Len(builds)
      BY <1>1, <1>2, <1>3, <1>4, <2>1 DEF WatchInv, LatestInv, Last, Incidents
    <2>2. CASE i # Len(builds)
      <3>1. builds # <<>> /\ Last(builds') = Last(builds)
        BY <1>1, <1>4, <2>2 DEF Last
      <3> QED BY <3>1, <1>3, <1>4 DEF WatchInv, LatestInv, Incidents
    <2> QED BY <2>1, <2>2
  <1>7. /\ Cardinality(Waiting) \in Nat /\ manual \in Nat
    BY WaitingFinite, Numbers DEF WatchInv
  <1>8. PollInv' /\ OneWaiting' /\ NoNeedlessBuilds'
    BY <1>3, <1>4, <1>7 DEF WatchInv, PollInv, OneWaiting, NoNeedlessBuilds, Incidents
  <1> QED BY <1>4, <1>5, <1>6, <1>8 DEF WatchInv

(***************************************************************************)
(* A build that fails allows for another.                                  *)
(***************************************************************************)
LEMMA FailBuildInv ==
  ASSUME WatchInv, NEW i \in DOMAIN builds, FailBuild(i)
  PROVE  WatchInv'
  <1> DEFINE b == [builds[i] EXCEPT !.phase = "failed"]
  <1>1. /\ builds \in Seq(Build) /\ Len(builds) \in Nat /\ DOMAIN builds = 1..Len(builds)
        /\ builds[i] \in Build /\ head \in Nat /\ commitish \in Nat
        /\ failures \in Nat /\ manual \in Nat /\ builds[i].revision \in Nat
    BY Numbers DEF WatchInv
  <1>2. /\ b \in Build /\ b.revision = builds[i].revision /\ b.phase = "failed"
        /\ b.revision <= head /\ b.revision \in Nat
    BY <1>1 DEF Build, WatchInv, QueueInv
  <1>3. /\ Running(i) /\ builds' = [builds EXCEPT ![i] = b]
        /\ failures < MaxFailures /\ failures' = failures + 1
        /\ UNCHANGED <<head, watcher, commitish, manual>>
    BY DEF FailBuild, Fail
  <1> HIDE DEF b
  <1>4. /\ builds' \in Seq(Build) /\ Len(builds') = Len(builds) /\ builds'[i] = b
        /\ \A k \in DOMAIN builds \ {i} : builds'[k] = builds[k]
        /\ Cardinality(Waiting') <= Cardinality(Waiting)
        /\ Cardinality(Waiting') \in Nat /\ QueueInv'
    BY <1>2, <1>3, RunningBuild
  <1>5. WatchTypeOK'
    BY <1>1, <1>3, <1>4, BoundAssumption DEF WatchInv, WatchTypeOK
  <1>6. /\ Incidents' = Incidents + 1 /\ Incidents \in Nat
        /\ Len(builds) <= head + Incidents
    <2>1. Incidents = failures + manual /\ Incidents' = failures' + manual'
      BY DEF Incidents
    <2>2. Len(builds) <= head + failures + manual
      BY DEF WatchInv, NoNeedlessBuilds
    <2> QED BY <2>1, <2>2, <1>1, <1>3
  <1>7. LatestInv'
    <2>1. CASE i = Len(builds)
      <3>1. b.revision # NoCommit => Len(builds) <= b.revision + Incidents
        BY <1>2, <2>1, <1>1 DEF WatchInv, LatestInv, Last
      <3> QED BY <1>1, <1>2, <1>3, <1>4, <1>6, <2>1, <3>1 DEF LatestInv, Last
    <2>2. CASE i # Len(builds)
      <3>1. builds # <<>> /\ Last(builds') = Last(builds) /\ Last(builds).revision \in Nat
        BY <1>1, <1>4, <2>2, Numbers DEF Last, WatchInv
      <3> QED BY <3>1, <1>1, <1>3, <1>4, <1>6 DEF WatchInv, LatestInv
    <2> QED BY <2>1, <2>2
  <1>8. /\ Cardinality(Waiting) \in Nat
    BY WaitingFinite DEF WatchInv
  <1>9. PollInv' /\ OneWaiting' /\ NoNeedlessBuilds'
    <2>1. PollInv'
      BY <1>1, <1>3, <1>4, <1>6, <1>8 DEF WatchInv, PollInv
    <2>2. OneWaiting'
      BY <1>1, <1>3, <1>4, <1>8 DEF WatchInv, OneWaiting
    <2>3. NoNeedlessBuilds'
      BY <1>1, <1>3, <1>4 DEF WatchInv, NoNeedlessBuilds
    <2> QED BY <2>1, <2>2, <2>3
  <1> QED BY <1>4, <1>5, <1>7, <1>9 DEF WatchInv

(***************************************************************************)
(* The watcher decides on a build only if none waits, and then there is    *)
(* room for one: the latest build is of another commit, or failed early.   *)
(***************************************************************************)
LEMMA ListBuildsInv == ASSUME WatchInv, ListBuilds PROVE WatchInv'
  <1>1. /\ builds \in Seq(Build) /\ Len(builds) \in Nat /\ DOMAIN builds = 1..Len(builds)
        /\ head \in Nat /\ commitish \in Nat /\ manual \in Nat /\ failures \in Nat
        /\ Incidents \in Nat /\ commitish # NoCommit
        /\ \A i \in DOMAIN builds : builds[i].revision \in Nat
    BY Numbers DEF WatchInv, Incidents, WatchTypeOK, Commit
  <1>2. /\ watcher = "list" /\ watcher' = (IF NeedsBuild THEN "instantiate" ELSE "off")
        /\ UNCHANGED <<head, builds, commitish, failures, manual>>
    BY DEF ListBuilds
  <1>3. Waiting' = Waiting /\ Incidents' = Incidents
    BY <1>2 DEF Waiting, Incidents
  <1>4. commitish <= head /\ Len(builds) <= commitish + Incidents
    BY <1>2 DEF WatchInv, PollInv
  <1>5. ASSUME NeedsBuild PROVE Len(builds) < head + Incidents
    <2>1. CASE builds = <<>>
      BY <2>1, <1>1, <1>4 DEF WatchTypeOK, Commit
    <2>2. CASE builds # <<>>
      <3> DEFINE r == Last(builds).revision
      <3>1. /\ r \in Nat /\ r <= head
        BY <1>1, <2>2 DEF Last, WatchInv, QueueInv
      <3>2. r # commitish /\ (r = NoCommit => Last(builds).phase # "active")
        BY <1>5, <2>2 DEF NeedsBuild
      <3>3. CASE r = NoCommit
        BY <3>2, <3>3, <2>2 DEF WatchInv, LatestInv
      <3>4. CASE r # NoCommit
        <4>1. Len(builds) <= r + Incidents
          BY <3>4, <2>2 DEF WatchInv, LatestInv
        <4> QED BY <4>1, <3>1, <3>2, <1>1, <1>4
      <3> QED BY <3>3, <3>4
    <2> QED BY <2>1, <2>2
  <1>6. ASSUME NeedsBuild PROVE Waiting = {}
    <2>1. CASE builds = <<>>
      BY <2>1, <1>1 DEF Waiting
    <2>2. CASE builds # <<>>
      <3>1. Len(builds) \in DOMAIN builds \ Waiting
        BY <1>1, <1>5, <1>6, <2>2 DEF NeedsBuild, Waiting, Last
      <3>2. \A k \in 1..(Len(builds) - 1) : builds[k].phase # "active"
        BY <3>1 DEF WatchInv, QueueInv
      <3> QED BY <3>1, <3>2, <1>1 DEF Waiting
    <2> QED BY <2>1, <2>2
  <1>7. PollInv'
    <2>1. NeedsBuild => Cardinality(Waiting) = 0
      BY <1>6, FS_EmptySet
    <2> QED BY <1>1, <1>2, <1>3, <1>4, <1>5, <2>1 DEF PollInv
  <1>8. WatchTypeOK' /\ QueueInv' /\ LatestInv' /\ OneWaiting' /\ NoNeedlessBuilds'
    BY <1>2, <1>3 DEF WatchInv, WatchTypeOK, QueueInv, LatestInv, OneWaiting, NoNeedlessBuilds
  <1> QED BY <1>7, <1>8 DEF WatchInv

(***************************************************************************)
(* The build decided on is started in the room it was decided on for.      *)
(***************************************************************************)
LEMMA InstantiateInv == ASSUME WatchInv, Instantiate PROVE WatchInv'
  <1>1. /\ watcher = "instantiate" /\ watcher' = "off" /\ builds' = Append(builds, NewBuild)
        /\ UNCHANGED <<head, commitish, failures, manual>>
    BY DEF Instantiate
  <1>2. WatchTypeOK'
    BY <1>1, NewBuildWaits DEF WatchInv, WatchTypeOK
  <1>3. /\ Incidents' = Incidents /\ Incidents \in Nat /\ manual \in Nat
        /\ head \in Nat /\ failures \in Nat /\ Len(builds) \in Nat
        /\ Len(builds') = Len(builds) + 1
        /\ Cardinality(Waiting) \in Nat /\ Cardinality(Waiting') = Cardinality(Waiting) + 1
    BY <1>1, Numbers, NewBuildWaits, WaitingFinite DEF WatchInv, Incidents
  <1>4. QueueInv'
    BY <1>1, NewBuildQueue DEF WatchInv
  <1>5. LatestInv'
    BY <1>1, NewBuildWaits DEF WatchInv, LatestInv, NewBuild
  <1>6. PollInv'
    BY <1>1 DEF PollInv
  <1>7. Len(builds) < head + Incidents /\ Cardinality(Waiting) <= manual
    BY <1>1 DEF WatchInv, PollInv
  <1>8. OneWaiting' /\ NoNeedlessBuilds'
    BY <1>1, <1>3, <1>7 DEF OneWaiting, NoNeedlessBuilds, Incidents
  <1> QED BY <1>2, <1>4, <1>5, <1>6, <1>8 DEF WatchInv

(***************************************************************************)
(* Each step of the watcher, of the builds and of people keeps the         *)
(* invariant.                                                              *)
(***************************************************************************)
LEMMA WatchNextInv == WatchInv /\ [WatchNext]_watchVars => WatchInv'
  <1> SUFFICES ASSUME WatchInv, [WatchNext]_watchVars PROVE WatchInv'
    OBVIOUS
  <1>1. CASE Push
    BY <1>1, PushInv
  <1>2. CASE StartManually
    BY <1>2, StartManuallyInv
  <1>3. ASSUME NEW i \in DOMAIN builds, FetchSource(i) \/ Complete(i) \/ FailBuild(i)
        PROVE  WatchInv'
    BY <1>3, FetchSourceInv, CompleteInv, FailBuildInv
  <1>4. CASE GetCommitish
    <2>1. /\ watcher' = "list" /\ commitish' = head
          /\ UNCHANGED <<head, builds, failures, manual>>
      BY <1>4 DEF GetCommitish
    <2>2. Waiting' = Waiting /\ Incidents' = Incidents
      BY <2>1 DEF Waiting, Incidents
    <2>3. WatchTypeOK' /\ QueueInv' /\ LatestInv' /\ OneWaiting' /\ NoNeedlessBuilds'
      BY <2>1, <2>2 DEF WatchInv, WatchTypeOK, QueueInv, LatestInv, OneWaiting, NoNeedlessBuilds
    <2>4. PollInv'
      <3>1. head \in Nat /\ failures \in Nat /\ manual \in Nat /\ Len(builds) \in Nat
        BY Numbers DEF WatchInv
      <3> QED BY <2>1, <3>1 DEF PollInv, WatchInv, NoNeedlessBuilds, Incidents
    <2> QED BY <2>3, <2>4 DEF WatchInv
  <1>5. CASE ListBuilds
    BY <1>5, ListBuildsInv
  <1>6. CASE Instantiate
    BY <1>6, InstantiateInv
  <1>7. CASE CallFails
    <2>1. /\ watcher' = "off" /\ failures < MaxFailures /\ failures' = failures + 1
          /\ UNCHANGED <<head, builds, commitish, manual>>
      BY <1>7 DEF CallFails, Fail
    <2>2. /\ failures \in Nat /\ manual \in Nat /\ head \in Nat /\ Len(builds) \in Nat
          /\ builds # <<>> => Last(builds).revision \in Nat
      BY Numbers DEF WatchInv, Last
    <2>3. Waiting' = Waiting /\ Incidents' = Incidents + 1 /\ Incidents \in Nat
      BY <2>1, <2>2 DEF Waiting, Incidents
    <2>4. WatchTypeOK' /\ QueueInv' /\ PollInv'
      BY <2>1, <2>2, <2>3, BoundAssumption DEF WatchInv, WatchTypeOK, QueueInv, PollInv
    <2>5. LatestInv'
      BY <2>1, <2>2, <2>3 DEF WatchInv, LatestInv
    <2>6. OneWaiting' /\ NoNeedlessBuilds'
      BY <2>1, <2>2, <2>3 DEF WatchInv, OneWaiting, NoNeedlessBuilds
    <2> QED BY <2>4, <2>5, <2>6 DEF WatchInv
  <1>8. CASE UNCHANGED watchVars
    BY <1>8 DEF watchVars, WatchInv, WatchTypeOK, QueueInv, LatestInv, PollInv, OneWaiting,
                NoNeedlessBuilds, Waiting, Incidents
  <1> QED BY <1>1, <1>2, <1>3, <1>4, <1>5, <1>6, <1>7, <1>8 DEF WatchNext

(***************************************************************************)
(* In every state, the latest build pays for all.                          *)
(***************************************************************************)
THEOREM WatchInductive == WatchSpec => []WatchInv
  BY WatchInitInv, WatchNextInv, PTL DEF WatchSpec

(***************************************************************************)
(* Polling does not pile up builds: at most one build of the watcher waits *)
(* for the source, however slow the builds are.                            *)
(***************************************************************************)
THEOREM BuildsDoNotPileUp == WatchSpec => []OneWaiting
  <1>1. WatchInv => OneWaiting
    BY DEF WatchInv
  <1> QED BY <1>1, WatchInductive, PTL

(***************************************************************************)
(* The watcher starts at most one build for each commit and each failure.  *)
(***************************************************************************)
THEOREM NoBuildWithoutReason == WatchSpec => []NoNeedlessBuilds
  <1>1. WatchInv => NoNeedlessBuilds
    BY DEF WatchInv
  <1> QED BY <1>1, WatchInductive, PTL
=============================================================================
